---- MODULE Spec2Model ----
(***************************************************************************)
(* A state-machine model of VBOSceneModel (xeokit-sdk): the geometry,      *)
(* texture and mesh registries, the batching / instancing layer selection  *)
(* of createMesh, and finalize().                                          *)
(*                                                                         *)
(* Vectors and matrices are abstracted to scalars: an origin is an         *)
(* integer (math.addVec3 is +, math.compareVec3 is =), a decode matrix is  *)
(* a name.  An array is represented by its length.  A JavaScript           *)
(* undefined / null is NoId, NoMat, NoVec or NoArr, by type.               *)
(***************************************************************************)
EXTENDS Integers, Sequences, FiniteSets, TLC

VARIABLES
    maxGeometryBatchSize,    \* this._maxGeometryBatchSize
    geometries,              \* this._geometries : id -> geometry
    numGeometries,           \* this.numGeometries
    numTriangles,            \* this._numTriangles
    textures,                \* this._textures : id -> texture
    textureSets,             \* this._textureSets : id -> texture set
    pendingLoads,            \* textures whose Image load is in flight
    meshes,                  \* this._meshes : id -> mesh
    nodes,                   \* this._nodes : id -> entity
    nodeList,                \* this._nodeList : sequence of entity ids
    layers,                  \* every layer object created, by creation number
    layerList,               \* this._layerList : sequence of layer numbers
    instancingLayers,        \* this._instancingLayers : layerId -> layer number
    currentBatchingLayers,   \* this._currentBatchingLayers : primitiveId -> layer number
    lastOrigin,              \* this._lastOrigin
    lastPositionsDecodeMatrix, \* this._lastPositionsDecodeMatrix
    lastUVDecodeMatrix,      \* this._lastUVDecodeMatrix
    lastTextureSetId,        \* this._lastTextureSetId
    lastNormals,             \* this._lastNormals
    tempVec3a,               \* module-level scratch vector
    destroyed,               \* Component#destroyed
    redraws,                 \* glRedraw() requests, saturating
    layerPortionCounts,      \* this.num*LayerPortions, kept by the layers
    renderFlags,             \* this.renderFlags
    modelFlags,              \* this._visible, this._xrayed, ..: the model's own flags
    eventSubs,               \* Viewer: this._eventSubs : event -> callbacks
    unsubscribed,            \* history: the subscriptions off(event) was called on
    glContext,               \* Canvas: the WebGL context, lost or not, and its generation
    renderers,               \* the batching renderers constructed, by class
    finalizeCalls,           \* history: number of finalize() calls that ran
    last,                    \* history: the operation performed last, with its cfg
    nOps                     \* history: number of operations performed

vars == <<maxGeometryBatchSize, geometries, numGeometries, numTriangles,
          textures, textureSets, pendingLoads, meshes, nodes, nodeList, layers,
          layerList, instancingLayers, currentBatchingLayers, lastOrigin,
          lastPositionsDecodeMatrix, lastUVDecodeMatrix, lastTextureSetId,
          lastNormals, tempVec3a, destroyed, redraws, layerPortionCounts,
          renderFlags, modelFlags, eventSubs, unsubscribed, glContext, renderers,
          finalizeCalls, last, nOps>>

geometryVars == <<geometries, numGeometries>>
textureVars == <<textures, textureSets, pendingLoads>>
nodeVars == <<nodes, nodeList>>
layerVars == <<layers, layerList, instancingLayers, currentBatchingLayers>>
renderVars == <<layerPortionCounts, renderFlags>>
viewerVars == <<eventSubs, unsubscribed>>
rendererVars == <<glContext, renderers>>
modelVars == <<maxGeometryBatchSize, geometries, numGeometries, numTriangles,
               textures, textureSets, pendingLoads, meshes, nodes, nodeList,
               layers, layerList, instancingLayers, currentBatchingLayers,
               lastOrigin, lastPositionsDecodeMatrix, lastUVDecodeMatrix,
               lastTextureSetId, lastNormals, tempVec3a, destroyed, redraws,
               layerPortionCounts, renderFlags, modelFlags, finalizeCalls>>
lastKeyVars == <<lastOrigin, lastPositionsDecodeMatrix, lastUVDecodeMatrix,
                 lastTextureSetId, lastNormals>>

-----------------------------------------------------------------------------
(* Bounds of the model *)

MaxOps == 4              \* operations per run of the life-cycle specification
MaxKeyOps == 3           \* operations per run of the layer-key specification
MaxBatchOps == 3         \* operations per run of the budget specification
MaxBatchSize == 2        \* largest maxGeometryBatchSize tried, in vertices
MaxMeshVerts == 2        \* largest mesh tried, in vertices
MaxGeometryOps == 2      \* operations per run of the geometry specification
MaxTextureOps == 2       \* createTexture calls per run of the texture specification
MaxOriginOps == 3         \* operations per run of the mesh-origin specification
MaxOrderOps == 5          \* operations per run of the finalize-order specification
MaxFlagOps == 3           \* operations per run of the entity-flags specification
MaxRendererOps == 4       \* operations per run of the renderer specification
MaxViewerOps == 4         \* operations per run of the viewer-events specification
MaxRenderOps == 4         \* operations per run of the rendering specification
MaxSortOps == 4           \* operations per run of the sorting specification
MaxEntityOps == 3         \* operations per run of the entity specification
MaxInstOps == 5           \* operations per run of the instancing specification
MaxAbortOps == 3          \* operations per run of the aborted-mesh specification
MaxSetOps == 3            \* operations per run of the texture-set specification
MaxLoadOps == 3           \* operations per run of the image-load specification
MaxRedraws == 2          \* glRedraw() requests counted

-----------------------------------------------------------------------------
(* JavaScript values *)

NoId == "none"           \* undefined / null where an id is expected
NoMat == "none"          \* undefined where a matrix is expected
NoVec == -1              \* undefined / null where a vector is expected
NoArr == -1              \* undefined where an array is expected
NoBool == "null"         \* null where a boolean is expected (this._lastNormals)

ModelOrigin == 0         \* this._origin

defaultColorTextureId == "defaultColorTexture"
defaultMetalRoughTextureId == "defaultMetalRoughTexture"
defaultNormalsTextureId == "defaultNormalsTexture"
defaultEmissiveTextureId == "defaultEmissiveTexture"
defaultOcclusionTextureId == "defaultOcclusionTexture"
defaultTextureSetId == "defaultTextureSet"

LinearEncoding == "LinearEncoding"
sRGBEncoding == "sRGBEncoding"
LinearFilter == "LinearFilter"
NearestFilter == "NearestFilter"
LinearMipmapLinearFilter == "LinearMipmapLinearFilter"
LinearMipMapNearestFilter == "LinearMipMapNearestFilter"
NearestMipMapLinearFilter == "NearestMipMapLinearFilter"
NearestMipMapNearestFilter == "NearestMipMapNearestFilter"
ClampToEdgeWrapping == "ClampToEdgeWrapping"
MirroredRepeatWrapping == "MirroredRepeatWrapping"
RepeatWrapping == "RepeatWrapping"

\* Math.round(n / 3) for an integer n >= 0
Round3(n) == (2 * n + 3) \div 6

\* Math.round(n / 2) for an integer n >= 0
Round2(n) == (n + 1) \div 2

\* obj[key] = value
Put(f, k, v) == [x \in DOMAIN f \cup {k} |-> IF x = k THEN v ELSE f[x]]

\* delete obj[key]
Del(f, k) == [x \in DOMAIN f \ {k} |-> f[x]]

Has(f, k) == k \in DOMAIN f

Range(f) == {f[x] : x \in DOMAIN f}

Min2(a, b) == IF a < b THEN a ELSE b

-----------------------------------------------------------------------------
(* Construction *)

\* new Texture2D({gl, preloadColor}) wrapped in a VBOSceneModelTexture
DefaultTexture ==
    [minFilter |-> LinearMipmapLinearFilter, magFilter |-> LinearFilter,
     wrapS |-> RepeatWrapping, wrapT |-> RepeatWrapping, wrapR |-> RepeatWrapping,
     encoding |-> LinearEncoding, image |-> "preloadColor"]

DefaultTextureIds ==
    {defaultColorTextureId, defaultMetalRoughTextureId, defaultNormalsTextureId,
     defaultEmissiveTextureId, defaultOcclusionTextureId}

DefaultTextureSet ==
    [colorTexture |-> defaultColorTextureId,
     metallicRoughnessTexture |-> defaultMetalRoughTextureId,
     normalsTexture |-> defaultNormalsTextureId,
     emissiveTexture |-> defaultEmissiveTextureId,
     occlusionTexture |-> defaultOcclusionTextureId]

NoOp == [op |-> "none"]

\* The flags whose setter stores value !== false, true by default
OnByDefault == {"visible", "pickable", "clippable", "collidable"}

\* The flags whose setter stores !!value, false by default
OffByDefault == {"culled", "edges", "xrayed", "highlighted", "selected"}

\* The model's flags after a constructor whose cfg gives none of them
DefaultModelFlags == [f \in OnByDefault \cup OffByDefault |-> f \in OnByDefault]

\* The portion counters the constructor zeroes
NoPortionCounts ==
    [numVisibleLayerPortions |-> 0, numCulledLayerPortions |-> 0,
     numTransparentLayerPortions |-> 0, numXRayedLayerPortions |-> 0,
     numEdgesLayerPortions |-> 0, numSelectedLayerPortions |-> 0,
     numHighlightedLayerPortions |-> 0]

\* new RenderFlags(): not culled, no layers, no render pass wanted
NewRenderFlags ==
    [culled |-> FALSE, numLayers |-> 0, numVisibleLayers |-> 0,
     visibleLayers |-> <<>>, passes |-> {}]

Init ==
    /\ maxGeometryBatchSize \in 1..MaxBatchSize
    /\ geometries = <<>>
    /\ numGeometries = 0
    /\ numTriangles = 0
    /\ textures = [t \in DefaultTextureIds |-> DefaultTexture]
    /\ textureSets = [s \in {defaultTextureSetId} |-> DefaultTextureSet]
    /\ pendingLoads = {}
    /\ meshes = <<>>
    /\ nodes = <<>>
    /\ nodeList = <<>>
    /\ layers = <<>>
    /\ layerList = <<>>
    /\ instancingLayers = <<>>
    /\ currentBatchingLayers = <<>>
    /\ lastOrigin = NoVec
    /\ lastPositionsDecodeMatrix = NoMat
    /\ lastUVDecodeMatrix = NoMat
    /\ lastTextureSetId = NoId
    /\ lastNormals = NoBool
    /\ tempVec3a = 0
    /\ destroyed = FALSE
    /\ redraws = 0
    /\ layerPortionCounts = NoPortionCounts
    /\ renderFlags = NewRenderFlags
    /\ modelFlags = DefaultModelFlags
    /\ eventSubs = <<>>
    /\ unsubscribed = {}
    /\ glContext = [lost |-> FALSE, generation |-> 0]
    /\ renderers = <<>>
    /\ finalizeCalls = 0
    /\ last = NoOp
    /\ nOps = 0

-----------------------------------------------------------------------------
(* createGeometry *)

Primitives == {"points", "lines", "triangles", "solid", "surface"}

\* The early returns of createGeometry without the last one, the check of
\* the indices
GeometryErrorIndicesUnchecked(cfg) ==
    IF cfg.id = NoId THEN "Config missing: id"
    ELSE IF Has(geometries, cfg.id) THEN "Geometry already created"
    ELSE IF cfg.primitive = NoId THEN "Param expected: primitive"
    ELSE IF cfg.primitive \notin Primitives THEN "Unsupported value for 'primitive'"
    ELSE IF cfg.positions = NoArr /\ cfg.positionsCompressed = NoArr
        THEN "Param expected: positions or positionsCompressed"
    ELSE IF cfg.positionsCompressed # NoArr /\ cfg.positionsDecodeMatrix = NoMat
        THEN "Param expected: positionsDecodeMatrix"
    ELSE IF cfg.uvCompressed # NoArr /\ cfg.uvDecodeMatrix = NoMat
        THEN "Param expected: uvDecodeMatrix"
    ELSE "ok"

\* The early returns of createGeometry, in the order of the code; "ok" when
\* none is taken.
GeometryError(cfg) ==
    IF cfg.id = NoId THEN "Config missing: id"
    ELSE IF Has(geometries, cfg.id) THEN "Geometry already created"
    ELSE IF cfg.primitive = NoId THEN "Param expected: primitive"
    ELSE IF cfg.primitive \notin Primitives THEN "Unsupported value for 'primitive'"
    ELSE IF cfg.positions = NoArr /\ cfg.positionsCompressed = NoArr
        THEN "Param expected: positions or positionsCompressed"
    ELSE IF cfg.positionsCompressed # NoArr /\ cfg.positionsDecodeMatrix = NoMat
        THEN "Param expected: positionsDecodeMatrix"
    ELSE IF cfg.uvCompressed # NoArr /\ cfg.uvDecodeMatrix = NoMat
        THEN "Param expected: uvDecodeMatrix"
    ELSE IF cfg.indices = NoArr /\ cfg.primitive # "points"
        THEN "Param expected: indices"
    ELSE "ok"

\* new VBOSceneModelGeometry(geometryId, this, cfg)
NewGeometry(cfg) ==
    [primitive |-> cfg.primitive,
     numIndices |-> IF cfg.indices = NoArr THEN 0 ELSE cfg.indices,
     positionsDecodeMatrix |-> cfg.positionsDecodeMatrix,
     lenPositions |-> IF cfg.positions # NoArr THEN cfg.positions
                      ELSE cfg.positionsCompressed,
     destroyed |-> FALSE]

CreateGeometry(cfg) ==
    /\ last' = [op |-> "createGeometry", cfg |-> cfg]
    /\ nOps' = nOps + 1
    /\ IF GeometryError(cfg) # "ok"
       THEN UNCHANGED <<geometries, numGeometries, numTriangles>>
       ELSE /\ geometries' = Put(geometries, cfg.id, NewGeometry(cfg))
            /\ numTriangles' = numTriangles
                   + (IF cfg.indices # NoArr THEN Round3(cfg.indices) ELSE 0)
            /\ numGeometries' = numGeometries + 1
    /\ UNCHANGED <<modelFlags, renderVars, viewerVars, rendererVars>>
    /\ UNCHANGED <<maxGeometryBatchSize, textureVars, meshes, nodeVars, layerVars,
                   lastKeyVars, tempVec3a, destroyed, redraws, finalizeCalls>>

-----------------------------------------------------------------------------
(* createTexture *)

MinFilters == {LinearFilter, LinearMipMapNearestFilter, LinearMipmapLinearFilter,
               NearestMipMapLinearFilter, NearestMipMapNearestFilter}
MagFilters == {LinearFilter, NearestFilter}
Wrappings == {ClampToEdgeWrapping, MirroredRepeatWrapping, RepeatWrapping}
Encodings == {LinearEncoding, sRGBEncoding}

\* An option that is defaulted only when it is omitted
OptionAsGiven(given, supported, dflt) ==
    IF given = NoId THEN dflt ELSE given

\* let x = cfg.x || dflt; if (x is not supported) { this.error(..); x = dflt; }
OptionOr(given, supported, dflt) ==
    IF given = NoId THEN dflt
    ELSE IF given \notin supported THEN dflt
    ELSE given

TextureMinFilter(cfg) == OptionOr(cfg.minFilter, MinFilters, LinearMipmapLinearFilter)
TextureMagFilter(cfg) == OptionOr(cfg.magFilter, MagFilters, LinearFilter)
TextureWrapS(cfg) == OptionOr(cfg.wrapS, Wrappings, RepeatWrapping)
TextureWrapT(cfg) == OptionOr(cfg.wrapT, Wrappings, RepeatWrapping)
TextureWrapR(cfg) == OptionOr(cfg.wrapR, Wrappings, RepeatWrapping)
TextureEncoding(cfg) == OptionOr(cfg.encoding, Encodings, LinearEncoding)

\* The early returns of createTexture, in the order of the code.
TextureError(cfg) ==
    IF cfg.id = NoId THEN "Config missing: id"
    ELSE IF Has(textures, cfg.id) THEN "Texture already created"
    ELSE IF ~cfg.src /\ ~cfg.image /\ ~cfg.buffers THEN "Param expected: src, image or buffers"
    ELSE "ok"

\* new Texture2D({gl, minFilter, ..}), then setImage() when cfg.image is given
NewTexture(cfg) ==
    [minFilter |-> TextureMinFilter(cfg), magFilter |-> TextureMagFilter(cfg),
     wrapS |-> TextureWrapS(cfg), wrapT |-> TextureWrapT(cfg),
     wrapR |-> TextureWrapR(cfg), encoding |-> TextureEncoding(cfg),
     image |-> IF cfg.image THEN "image" ELSE "preloadColor"]

CreateTexture(cfg) ==
    /\ last' = [op |-> "createTexture", cfg |-> cfg]
    /\ nOps' = nOps + 1
    /\ IF TextureError(cfg) # "ok"
       THEN UNCHANGED <<textures, pendingLoads>>
       ELSE /\ textures' = Put(textures, cfg.id, NewTexture(cfg))
            /\ pendingLoads' = IF ~cfg.image /\ cfg.src
                               THEN pendingLoads \cup {cfg.id}
                               ELSE pendingLoads
    /\ UNCHANGED <<modelFlags, renderVars, viewerVars, rendererVars>>
    /\ UNCHANGED <<maxGeometryBatchSize, geometryVars, numTriangles, textureSets,
                   meshes, nodeVars, layerVars, lastKeyVars, tempVec3a, destroyed,
                   redraws, finalizeCalls>>

\* image.onload of the Image that createTexture({src}) started.  The handler
\* holds the Texture2D object itself and tests nothing before its two calls,
\* which the history records.
ImageOnload(id) ==
    /\ id \in pendingLoads
    /\ pendingLoads' = pendingLoads \ {id}
    /\ textures' = IF Has(textures, id)
                   THEN [textures EXCEPT ![id].image = "image"]
                   ELSE textures
    /\ redraws' = Min2(redraws + 1, MaxRedraws)
    /\ last' = [op |-> "imageOnload", id |-> id,
                calls |-> <<"setImage", "glRedraw">>]
    /\ UNCHANGED <<modelFlags, renderVars, viewerVars, rendererVars>>
    /\ UNCHANGED <<maxGeometryBatchSize, geometryVars, numTriangles, textureSets,
                   meshes, nodeVars, layerVars, lastKeyVars, tempVec3a, destroyed,
                   finalizeCalls, nOps>>

-----------------------------------------------------------------------------
(* createTextureSet *)

\* A role lookup that takes the id given without looking in the registry
RoleTextureUnchecked(givenId, defaultId) ==
    IF givenId # NoId THEN givenId ELSE defaultId

\* One role of createTextureSet: this._textures[id] for the id given, or for
\* the role's default id when the field is omitted; NoId when the registry
\* has no such texture (undefined).
RoleTexture(givenId, defaultId) ==
    LET id == IF givenId # NoId THEN givenId ELSE defaultId
    IN  IF Has(textures, id) THEN id ELSE NoId

\* The cfg field and the default texture id of each role
TextureRoles ==
    [colorTexture |-> <<"colorTextureId", defaultColorTextureId>>,
     metallicRoughnessTexture |->
         <<"metallicRoughnessTextureId", defaultMetalRoughTextureId>>,
     normalsTexture |-> <<"normalsTextureId", defaultNormalsTextureId>>,
     emissiveTexture |-> <<"emissiveTextureId", defaultEmissiveTextureId>>,
     occlusionTexture |-> <<"occlusionTextureId", defaultOcclusionTextureId>>]

\* new VBOSceneModelTextureSet({id, model, colorTexture, ..})
NewTextureSet(cfg) ==
    [r \in DOMAIN TextureRoles |->
        RoleTexture(cfg[TextureRoles[r][1]], TextureRoles[r][2])]

\* The early returns of createTextureSet, in the order of the code.
TextureSetError(cfg) ==
    IF cfg.id = NoId THEN "Config missing: id"
    ELSE IF Has(textureSets, cfg.id) THEN "Texture set already created"
    ELSE IF \E r \in DOMAIN TextureRoles :
               /\ cfg[TextureRoles[r][1]] # NoId
               /\ NewTextureSet(cfg)[r] = NoId
        THEN "Texture not found"
    ELSE "ok"

CreateTextureSet(cfg) ==
    /\ last' = [op |-> "createTextureSet", cfg |-> cfg]
    /\ nOps' = nOps + 1
    /\ IF TextureSetError(cfg) # "ok"
       THEN UNCHANGED textureSets
       ELSE textureSets' = Put(textureSets, cfg.id, NewTextureSet(cfg))
    /\ UNCHANGED <<modelFlags, renderVars, viewerVars, rendererVars>>
    /\ UNCHANGED <<maxGeometryBatchSize, geometryVars, numTriangles, textures,
                   pendingLoads, meshes, nodeVars, layerVars, lastKeyVars, tempVec3a,
                   destroyed, redraws, finalizeCalls>>

-----------------------------------------------------------------------------
(* Layers.  The layer classes (TrianglesBatchingLayer, LinesBatchingLayer,   *)
(* PointsBatchingLayer and the three instancing layers) are not part of the  *)
(* sources modelled here; they follow the layer contract of the              *)
(* specification: canCreatePortion, createPortion, finalize, destroy.        *)

BoolStr(b) == IF b THEN "true" ELSE "false"

IsTriangles(primitive) == primitive \in {"triangles", "solid", "surface"}

\* The layer class that the switch on the primitive constructs
LayerClass(primitive) ==
    IF IsTriangles(primitive) THEN "triangles" ELSE primitive

\* canCreatePortion(lenPositions, lenIndices): the occupancy plus the request
\* stays within the vertex budget the layer was constructed with
CanCreatePortion(layer, lenPositions, lenIndices) ==
    layer.numVerts + (lenPositions \div 3) <= layer.maxGeometryBatchSize

\* layer.createPortion(..): one more portion; a finalized layer takes none
\* (the call is a fatal usage error) and counts the call in "rejected"
CreatePortion(layer, portion) ==
    IF layer.finalizeCalls > 0
    THEN [layer EXCEPT !.rejected = @ + 1]
    ELSE [layer EXCEPT !.portions = Append(@, portion),
                       !.numVerts = @ + portion.numVerts]

\* layer.finalize()
FinalizeLayer(layer) == [layer EXCEPT !.finalizeCalls = @ + 1]

\* layer.finalize() on each of the layers numbered in ids
FinalizeAll(ls, ids) ==
    [u \in DOMAIN ls |-> IF u \in ids THEN FinalizeLayer(ls[u]) ELSE ls[u]]

\* layer.sortId: groups the layers that need the same shader and textures.
\* An order on (layer class, solid, normals, texture set), as a number.
TextureSetOrder == <<NoId, defaultTextureSetId, "ts1", "ts2">>

Rank(seq, x) == CHOOSE i \in 1..Len(seq) : seq[i] = x

SortId(layer) ==
    (((Rank(<<"triangles", "lines", "points">>, layer.class) * 2
       + (IF layer.kind = "instancing" THEN 1 ELSE 0)) * 2
      + (IF layer.solid THEN 1 ELSE 0)) * 2
     + (IF layer.autoNormals THEN 1 ELSE 0)) * Len(TextureSetOrder)
    + Rank(TextureSetOrder, layer.textureSet)

-----------------------------------------------------------------------------
(* createMesh *)

\* cfg.normals && cfg.normals.length > 0, and so on for each attribute array
Given(arr) == arr # NoArr /\ arr > 0

\* const textureSetId = cfg.textureSetId || defaultTextureSetId
MeshTextureSetId(cfg) ==
    IF cfg.textureSetId # NoId THEN cfg.textureSetId ELSE defaultTextureSetId

\* const sharingGeometry = (cfg.geometryId !== undefined)
SharingGeometry(cfg) == cfg.geometryId # NoId

\* let primitive = cfg.primitive, defaulting to "triangles"
MeshPrimitive(cfg) == IF cfg.primitive = NoId THEN "triangles" ELSE cfg.primitive

\* The early returns of createMesh without the last one, the check of the
\* indices
MeshErrorIndicesUnchecked(cfg) ==
    IF cfg.id = NoId THEN "Config missing: id"
    ELSE IF Has(meshes, cfg.id) THEN "already has a mesh with this ID"
    ELSE IF SharingGeometry(cfg) /\ ~Has(geometries, cfg.geometryId)
        THEN "Geometry not found"
    ELSE IF ~Has(textureSets, MeshTextureSetId(cfg)) THEN "Texture set not found"
    ELSE IF SharingGeometry(cfg) THEN "ok"
    ELSE IF MeshPrimitive(cfg) \notin Primitives THEN "Unsupported value for 'primitive'"
    ELSE IF cfg.positions = NoArr /\ cfg.positionsCompressed = NoArr
        THEN "Param expected: positions or positionsCompressed"
    ELSE IF cfg.positions # NoArr /\ cfg.positionsCompressed # NoArr
        THEN "Only one param expected, not both"
    ELSE IF cfg.positionsCompressed # NoArr /\ cfg.positionsDecodeMatrix = NoMat
        THEN "Param expected: positionsDecodeMatrix"
    ELSE IF cfg.uvCompressed # NoArr /\ cfg.uvDecodeMatrix = NoMat
        THEN "Param expected: uvDecodeMatrix"
    ELSE "ok"

\* The early returns of createMesh, in the order of the code: the id and
\* reference checks, then, without geometryId, the geometry validation.
MeshError(cfg) ==
    IF cfg.id = NoId THEN "Config missing: id"
    ELSE IF Has(meshes, cfg.id) THEN "already has a mesh with this ID"
    ELSE IF SharingGeometry(cfg) /\ ~Has(geometries, cfg.geometryId)
        THEN "Geometry not found"
    ELSE IF ~Has(textureSets, MeshTextureSetId(cfg)) THEN "Texture set not found"
    ELSE IF SharingGeometry(cfg) THEN "ok"
    ELSE IF MeshPrimitive(cfg) \notin Primitives THEN "Unsupported value for 'primitive'"
    ELSE IF cfg.positions = NoArr /\ cfg.positionsCompressed = NoArr
        THEN "Param expected: positions or positionsCompressed"
    ELSE IF cfg.positions # NoArr /\ cfg.positionsCompressed # NoArr
        THEN "Only one param expected, not both"
    ELSE IF cfg.positionsCompressed # NoArr /\ cfg.positionsDecodeMatrix = NoMat
        THEN "Param expected: positionsDecodeMatrix"
    ELSE IF cfg.uvCompressed # NoArr /\ cfg.uvDecodeMatrix = NoMat
        THEN "Param expected: uvDecodeMatrix"
    ELSE IF cfg.indices = NoArr /\ MeshPrimitive(cfg) # "points"
        THEN "Param expected: indices"
    ELSE "ok"

\* worldToRTCPositions(positions, rtcPositions, rtcCenter): whether the
\* positions need re-centering; cfg.worldCenter is the centre it then finds
\* (0 when the positions are small enough to stay as they are)
RtcNeeded(cfg) == cfg.positions # NoArr /\ cfg.worldCenter # 0

\* (cfg.origin || cfg.rtcCenter) ? math.addVec3(this._origin, .., tempVec3a)
\*                               : this._origin
CfgOriginGiven(cfg) == cfg.origin # NoVec

\* The origin the batching branch resolves: the model origin plus the mesh
\* origin, plus the RTC centre of the positions when re-centering is needed
BatchingOrigin(cfg) ==
    (IF CfgOriginGiven(cfg) THEN ModelOrigin + cfg.origin ELSE ModelOrigin)
    + (IF RtcNeeded(cfg) THEN cfg.worldCenter ELSE 0)

\* The object mesh.origin refers to after the batching branch: the scratch
\* vector, the model's own origin, or a vector of its own
BatchingOriginRef(cfg) ==
    IF RtcNeeded(cfg) THEN "own"
    ELSE IF CfgOriginGiven(cfg) THEN "tempVec3a"
    ELSE "model"

\* An origin check that only notices the first batched mesh
OriginChangedOnlyFirst(cfg) == lastOrigin = NoVec

\* if (!this._lastOrigin) .. else if (!math.compareVec3(this._lastOrigin, origin))
OriginChanged(cfg) == lastOrigin = NoVec \/ lastOrigin # BatchingOrigin(cfg)

PositionsDecodeMatrixChanged(cfg) ==
    /\ cfg.positionsDecodeMatrix # NoMat
    /\ (lastPositionsDecodeMatrix = NoMat
        \/ lastPositionsDecodeMatrix # cfg.positionsDecodeMatrix)

UVDecodeMatrixChanged(cfg) ==
    /\ cfg.uvDecodeMatrix # NoMat
    /\ (lastUVDecodeMatrix = NoMat \/ lastUVDecodeMatrix # cfg.uvDecodeMatrix)

TextureSetChanged(cfg) ==
    /\ cfg.textureSetId # NoId
    /\ lastTextureSetId # cfg.textureSetId

\* needNewBatchingLayers, as the four checks leave it
NeedNewBatchingLayers(cfg) ==
    \/ OriginChanged(cfg)
    \/ PositionsDecodeMatrixChanged(cfg)
    \/ UVDecodeMatrixChanged(cfg)
    \/ TextureSetChanged(cfg)

\* const normalsProvided = (!!cfg.normals && cfg.normals.length > 0)
NormalsProvided(cfg) == Given(cfg.normals)

\* The second flush: a triangle mesh whose normals-presence differs from the
\* one remembered
NormalsChanged(cfg) ==
    /\ IsTriangles(MeshPrimitive(cfg))
    /\ lastNormals # NoBool
    /\ BoolStr(NormalsProvided(cfg)) # lastNormals

\* math.MAX_DOUBLE and math.MIN_DOUBLE, on the model's scale
MAX_DOUBLE == 1000
MIN_DOUBLE == -1000

\* math.collapseAABB3(): the box that holds nothing
CollapseAABB3 == [min |-> MAX_DOUBLE, max |-> MIN_DOUBLE]

\* math.expandAABB3(aabb1, aabb2): aabb1 grown to hold aabb2
ExpandAABB3(aabb1, aabb2) ==
    [min |-> IF aabb2.min < aabb1.min THEN aabb2.min ELSE aabb1.min,
     max |-> IF aabb2.max > aabb1.max THEN aabb2.max ELSE aabb1.max]

\* The world AABB that createPortion fills in for a mesh: positions of
\* length n are taken to span 0..n on the model's one axis, from the origin
PortionAABB(origin, lenPositions) ==
    ExpandAABB3(CollapseAABB3, [min |-> origin, max |-> origin + lenPositions])

\* The key of this._currentBatchingLayers
PrimitiveId(cfg) ==
    <<MeshPrimitive(cfg), Given(cfg.normals), Given(cfg.normalsCompressed),
      Given(cfg.colors), Given(cfg.colorsCompressed), Given(cfg.uv),
      Given(cfg.uvCompressed)>>

\* const lenPositions = (positions || cfg.positionsCompressed).length
LenPositions(cfg) ==
    IF cfg.positions # NoArr THEN cfg.positions ELSE cfg.positionsCompressed

\* What a mesh contributes to its layer, kept with the portion
NewPortion(cfg, origin) ==
    [mesh |-> cfg.id,
     geometryId |-> cfg.geometryId,
     textureSetId |-> MeshTextureSetId(cfg),
     positionsDecodeMatrix |-> cfg.positionsDecodeMatrix,
     uvDecodeMatrix |-> cfg.uvDecodeMatrix,
     origin |-> origin,
     normals |-> NormalsProvided(cfg),
     primitiveId |-> IF SharingGeometry(cfg) THEN <<>> ELSE PrimitiveId(cfg),
     numIndices |-> IF SharingGeometry(cfg) \/ cfg.indices = NoArr
                    THEN 0 ELSE cfg.indices,
     numVerts |-> IF SharingGeometry(cfg) THEN 0 ELSE LenPositions(cfg) \div 3]

\* new TrianglesBatchingLayer({..}), new LinesBatchingLayer({..}) or
\* new PointsBatchingLayer({..}), with the arguments createMesh passes
NewBatchingLayer(cfg) ==
    [kind |-> "batching",
     class |-> LayerClass(MeshPrimitive(cfg)),
     geometryId |-> NoId,
     textureSet |-> IF IsTriangles(MeshPrimitive(cfg))
                    THEN MeshTextureSetId(cfg) ELSE NoId,
     positionsDecodeMatrix |-> cfg.positionsDecodeMatrix,
     uvDecodeMatrix |-> IF IsTriangles(MeshPrimitive(cfg))
                        THEN cfg.uvDecodeMatrix ELSE NoMat,
     origin |-> BatchingOrigin(cfg),
     maxGeometryBatchSize |-> maxGeometryBatchSize,
     solid |-> MeshPrimitive(cfg) = "solid",
     autoNormals |-> IsTriangles(MeshPrimitive(cfg)) /\ ~NormalsProvided(cfg),
     numVerts |-> 0,
     numIndices |-> 0,
     portions |-> <<>>,
     finalizeCalls |-> 0,
     destroyCalls |-> 0,
     rejected |-> 0,
     layerIndex |-> 0]

\* The layer objects after the two flushes of the open batching layers
FlushedLayers(cfg) ==
    LET ls1 == IF NeedNewBatchingLayers(cfg)
               THEN FinalizeAll(layers, Range(currentBatchingLayers))
               ELSE layers
        cur1 == IF NeedNewBatchingLayers(cfg) THEN <<>> ELSE currentBatchingLayers
    IN  IF NormalsChanged(cfg) THEN FinalizeAll(ls1, Range(cur1)) ELSE ls1

\* this._currentBatchingLayers after the two flushes
FlushedCurrent(cfg) ==
    IF NeedNewBatchingLayers(cfg) \/ NormalsChanged(cfg)
    THEN <<>>
    ELSE currentBatchingLayers

\* An open layer that is taken to have room for every mesh
OpenLayerNeverFull(cfg) == FALSE

\* if (layer) { if (!layer.canCreatePortion(lenPositions, indices.length)) ..
OpenLayerFull(cfg) ==
    /\ Has(FlushedCurrent(cfg), PrimitiveId(cfg))
    /\ ~CanCreatePortion(FlushedLayers(cfg)[FlushedCurrent(cfg)[PrimitiveId(cfg)]],
                         LenPositions(cfg), cfg.indices)

\* A new layer for every mesh
AlwaysNewLayer(cfg) == TRUE

\* if (!layer) { layer = new ..BatchingLayer(..) .. }
NeedsNewLayer(cfg) ==
    ~Has(FlushedCurrent(cfg), PrimitiveId(cfg)) \/ OpenLayerFull(cfg)

\* The number of the layer that takes the mesh's portion
BatchingLayerOf(cfg) ==
    IF NeedsNewLayer(cfg)
    THEN Len(layers) + 1
    ELSE FlushedCurrent(cfg)[PrimitiveId(cfg)]

\* The batching branch of createMesh
CreateBatchedMesh(cfg) ==
    LET origin == BatchingOrigin(cfg)
        pid == PrimitiveId(cfg)
        cur2 == FlushedCurrent(cfg)
        ls3 == IF OpenLayerFull(cfg)
               THEN FinalizeAll(FlushedLayers(cfg), {cur2[pid]})
               ELSE FlushedLayers(cfg)
        uid == BatchingLayerOf(cfg)
        ls4 == IF NeedsNewLayer(cfg) THEN Append(ls3, NewBatchingLayer(cfg)) ELSE ls3
        tris == IF IsTriangles(MeshPrimitive(cfg)) THEN Round3(cfg.indices) ELSE 0
    IN  /\ tempVec3a' = IF CfgOriginGiven(cfg) THEN ModelOrigin + cfg.origin
                        ELSE tempVec3a
        /\ lastOrigin' = origin
        /\ lastPositionsDecodeMatrix' =
               IF cfg.positionsDecodeMatrix # NoMat THEN cfg.positionsDecodeMatrix
               ELSE lastPositionsDecodeMatrix
        /\ lastUVDecodeMatrix' =
               IF cfg.uvDecodeMatrix # NoMat THEN cfg.uvDecodeMatrix
               ELSE lastUVDecodeMatrix
        /\ lastTextureSetId' =
               IF cfg.textureSetId # NoId THEN cfg.textureSetId ELSE lastTextureSetId
        /\ lastNormals' = IF IsTriangles(MeshPrimitive(cfg))
                          THEN BoolStr(NormalsProvided(cfg)) ELSE lastNormals
        /\ layers' = [ls4 EXCEPT ![uid] = CreatePortion(@, NewPortion(cfg, origin))]
        /\ layerList' = IF NeedsNewLayer(cfg) THEN Append(layerList, uid) ELSE layerList
        /\ currentBatchingLayers' = Put(cur2, pid, uid)
        /\ numTriangles' = numTriangles + tris
        /\ numGeometries' = numGeometries + 1
        /\ meshes' = Put(meshes, cfg.id,
               [layer |-> uid, portionId |-> Len(ls4[uid].portions),
                originRef |-> BatchingOriginRef(cfg), origin |-> origin,
                numTriangles |-> tris, parent |-> NoId,
                aabb |-> PortionAABB(origin, LenPositions(cfg))])
        /\ UNCHANGED <<geometries, instancingLayers>>

\* `${origin[0]}.${origin[1]}.${origin[2]}.${textureSetId}.${geometryId}`
InstancingLayerId(origin, textureSetId, geometryId) ==
    ToString(origin) \o "." \o textureSetId \o "." \o geometryId

\* The origin the instancing branch resolves
InstancingOrigin(cfg) ==
    IF CfgOriginGiven(cfg) THEN ModelOrigin + cfg.origin ELSE ModelOrigin

\* new TrianglesInstancingLayer({..}), new LinesInstancingLayer({..}) or
\* new PointsInstancingLayer({..}), with the arguments _getInstancingLayer passes
NewInstancingLayer(origin, textureSetId, geometryId) ==
    [kind |-> "instancing",
     class |-> LayerClass(geometries[geometryId].primitive),
     geometryId |-> geometryId,
     textureSet |-> textureSetId,
     positionsDecodeMatrix |-> geometries[geometryId].positionsDecodeMatrix,
     uvDecodeMatrix |-> NoMat,
     origin |-> origin,
     maxGeometryBatchSize |-> 0,
     solid |-> geometries[geometryId].primitive = "solid",
     autoNormals |-> FALSE,
     numVerts |-> 0,
     numIndices |-> geometries[geometryId].numIndices,
     portions |-> <<>>,
     finalizeCalls |-> 0,
     destroyCalls |-> 0,
     rejected |-> 0,
     layerIndex |-> 0]

\* The instancing branch of createMesh, with _getInstancingLayer
CreateInstancedMesh(cfg) ==
    LET origin == InstancingOrigin(cfg)
        ts == MeshTextureSetId(cfg)
        layerId == InstancingLayerId(origin, ts, cfg.geometryId)
        found == Has(instancingLayers, layerId)
        uid == IF found THEN instancingLayers[layerId] ELSE Len(layers) + 1
        ls1 == IF found THEN layers
               ELSE Append(layers, NewInstancingLayer(origin, ts, cfg.geometryId))
        thrown == ls1[uid].finalizeCalls > 0
        tris == Round3(ls1[uid].numIndices)
    IN  /\ tempVec3a' = IF CfgOriginGiven(cfg) THEN origin ELSE tempVec3a
        /\ instancingLayers' = IF found THEN instancingLayers
                               ELSE Put(instancingLayers, layerId, uid)
        /\ layerList' = IF found THEN layerList ELSE Append(layerList, uid)
        /\ layers' = [ls1 EXCEPT ![uid] = CreatePortion(@, NewPortion(cfg, origin))]
        /\ IF thrown
           THEN UNCHANGED <<numTriangles, meshes>>
           ELSE /\ numTriangles' = numTriangles + tris
                /\ meshes' = Put(meshes, cfg.id,
                       [layer |-> uid, portionId |-> Len(ls1[uid].portions),
                        originRef |-> IF CfgOriginGiven(cfg) THEN "tempVec3a"
                                      ELSE "model",
                        origin |-> origin, numTriangles |-> tris, parent |-> NoId,
                        aabb |-> PortionAABB(origin,
                                     geometries[cfg.geometryId].lenPositions)])
        /\ UNCHANGED <<geometryVars, currentBatchingLayers, lastKeyVars>>

CreateMesh(cfg) ==
    /\ last' = [op |-> "createMesh", cfg |-> cfg, error |-> MeshError(cfg)]
    /\ nOps' = nOps + 1
    /\ IF MeshError(cfg) # "ok"
       THEN UNCHANGED <<geometryVars, numTriangles, meshes, layerVars, lastKeyVars,
                        tempVec3a>>
       ELSE IF SharingGeometry(cfg)
            THEN CreateInstancedMesh(cfg)
            ELSE CreateBatchedMesh(cfg)
    /\ UNCHANGED <<modelFlags, renderVars, viewerVars, rendererVars>>
    /\ UNCHANGED <<maxGeometryBatchSize, textureVars, nodeVars, destroyed, redraws,
                   finalizeCalls>>

-----------------------------------------------------------------------------
(* createEntity *)

\* math.createUUID(): an id no component has
CreateUUID == "uuid" \o ToString(Len(nodeList))

\* The id createEntity settles on: a random one when cfg.id is omitted or taken
EntityId(cfg) ==
    IF cfg.id = NoId \/ Has(nodes, cfg.id) THEN CreateUUID ELSE cfg.id

\* The meshes the loop over cfg.meshIds collects: those registered that have
\* no parent yet
RECURSIVE CollectMeshes(_)
CollectMeshes(meshIds) ==
    IF meshIds = <<>> THEN <<>>
    ELSE LET rest == CollectMeshes(Tail(meshIds))
             meshId == Head(meshIds)
         IN  IF ~Has(meshes, meshId) THEN rest
             ELSE IF meshes[meshId].parent # NoId THEN rest
             ELSE <<meshId>> \o rest

SeqRange(seq) == {seq[i] : i \in 1..Len(seq)}

\* cfg.meshIds === undefined
NoMeshIds == <<NoId>>

RECURSIVE ExpandAll(_, _)
\* for (i ..) { math.expandAABB3(aabb, meshes[i].aabb) }
ExpandAll(aabb, ms) ==
    IF ms = <<>> THEN aabb
    ELSE ExpandAll(ExpandAABB3(aabb, meshes[Head(ms)].aabb), Tail(ms))

\* An Entity AABB that is that of the first mesh collected
EntityAABBOfFirst(ms) ==
    IF ms = <<>> THEN CollapseAABB3 ELSE meshes[ms[1]].aabb

\* The AABB createEntity computes from the meshes it collected
EntityAABB(ms) ==
    IF Len(ms) = 1 THEN meshes[ms[1]].aabb ELSE ExpandAll(CollapseAABB3, ms)

\* cfg[f], undefined when the cfg has no such field
CfgFlag(cfg, f) == IF f \in DOMAIN cfg THEN BoolStr(cfg[f]) ELSE NoBool

\* if (this._visible && cfg.visible !== false) { flags |= VISIBLE }, and so
\* on for each flag
EntityFlag(cfg, f) == modelFlags[f] /\ CfgFlag(cfg, f) # BoolStr(FALSE)

\* The ENTITY_FLAGS set in flags
EntityFlags(cfg) == {f \in DOMAIN modelFlags : EntityFlag(cfg, f)}

\* new VBOSceneModelNode(this, cfg.isObject, id, meshes, flags, aabb)
NewNode(cfg) ==
    [meshes |-> CollectMeshes(cfg.meshIds), finalize |-> 0, finalize2 |-> 0,
     aabb |-> EntityAABB(CollectMeshes(cfg.meshIds)),
     flags |-> EntityFlags(cfg), destroyed |-> FALSE]

CreateEntity(cfg) ==
    /\ last' = [op |-> "createEntity", cfg |-> cfg]
    /\ nOps' = nOps + 1
    /\ IF cfg.meshIds = NoMeshIds
       THEN UNCHANGED <<meshes, nodeVars>>
       ELSE /\ nodes' = Put(nodes, EntityId(cfg), NewNode(cfg))
            /\ nodeList' = Append(nodeList, EntityId(cfg))
            /\ meshes' = [m \in DOMAIN meshes |->
                   IF m \in SeqRange(CollectMeshes(cfg.meshIds))
                   THEN [meshes[m] EXCEPT !.parent = EntityId(cfg)]
                   ELSE meshes[m]]
    /\ UNCHANGED <<modelFlags, renderVars, viewerVars, rendererVars>>
    /\ UNCHANGED <<maxGeometryBatchSize, geometryVars, numTriangles, textureVars,
                   layerVars, lastKeyVars, tempVec3a, destroyed, redraws,
                   finalizeCalls>>

-----------------------------------------------------------------------------
(* finalize *)

\* Array.prototype.sort with the sortId comparator: a stable sort
RECURSIVE InsertBySortId(_, _, _)
InsertBySortId(ls, sorted, u) ==
    IF sorted = <<>> THEN <<u>>
    ELSE IF SortId(ls[u]) < SortId(ls[Head(sorted)]) THEN <<u>> \o sorted
    ELSE <<Head(sorted)>> \o InsertBySortId(ls, Tail(sorted), u)

\* A sort that leaves the list as it was
SortKeepsOrder(ls, list) == list

RECURSIVE SortBySortId(_, _)
SortBySortId(ls, list) ==
    IF list = <<>> THEN <<>>
    ELSE InsertBySortId(ls, SortBySortId(ls, SubSeq(list, 1, Len(list) - 1)),
                        list[Len(list)])

\* The layers finalize() calls finalize() on: every instancing layer and
\* every open batching layer
LayersToFinalize == Range(instancingLayers) \cup Range(currentBatchingLayers)

\* for (i ..) { this._layerList[i].layerIndex = i }
Reindexed(ls, list) ==
    [u \in DOMAIN ls |->
        IF u \in SeqRange(list)
        THEN [ls[u] EXCEPT !.layerIndex = Rank(list, u) - 1]
        ELSE ls[u]]

RECURSIVE Ascending(_)
\* The numbers of a set, smallest first: the order in which for .. in visits
\* the layers of a map, which is the order of their creation
Ascending(S) ==
    IF S = {} THEN <<>>
    ELSE LET least == CHOOSE x \in S : \A y \in S : x <= y
         IN  <<least>> \o Ascending(S \ {least})

\* The calls of one call kind on each element of a sequence, in its order
CallsOn(call, seq) == [i \in 1..Len(seq) |-> [call |-> call, on |-> seq[i]]]

\* A finalize() that sorts and re-indexes before it finalizes anything
FinalizeTraceSortFirst ==
    <<[call |-> "layerList.sort", on |-> 0],
      [call |-> "layerIndex", on |-> 0]>>
    \o CallsOn("node._finalize2", nodeList)
    \o CallsOn("node._finalize", nodeList)
    \o CallsOn("layer.finalize", Ascending(Range(currentBatchingLayers)))
    \o CallsOn("layer.finalize", Ascending(Range(instancingLayers)))

\* The calls finalize() makes on a live model, in the order of its statements
FinalizeTrace ==
    CallsOn("layer.finalize", Ascending(Range(instancingLayers)))
    \o CallsOn("layer.finalize", Ascending(Range(currentBatchingLayers)))
    \o CallsOn("node._finalize", nodeList)
    \o CallsOn("node._finalize2", nodeList)
    \o <<[call |-> "layerList.sort", on |-> 0],
         [call |-> "layerIndex", on |-> 0]>>

Finalize ==
    /\ last' = [op |-> "finalize",
                calls |-> IF destroyed THEN <<>> ELSE FinalizeTrace]
    /\ nOps' = nOps + 1
    /\ IF destroyed
       THEN UNCHANGED <<nodeVars, layerVars, redraws, finalizeCalls>>
       ELSE /\ layerList' = SortBySortId(layers, layerList)
            /\ layers' = Reindexed(FinalizeAll(layers, LayersToFinalize), layerList')
            /\ currentBatchingLayers' = <<>>
            /\ nodes' = [n \in DOMAIN nodes |->
                   [nodes[n] EXCEPT !.finalize = @ + 1, !.finalize2 = @ + 1]]
            /\ redraws' = Min2(redraws + 1, MaxRedraws)
            /\ finalizeCalls' = finalizeCalls + 1
            /\ UNCHANGED <<instancingLayers, nodeList>>
    /\ UNCHANGED <<modelFlags, renderVars, viewerVars, rendererVars>>
    /\ UNCHANGED <<maxGeometryBatchSize, geometryVars, numTriangles, textureVars,
                   meshes, lastKeyVars, tempVec3a, destroyed>>

-----------------------------------------------------------------------------
(* destroy *)

\* layer.destroy() on each of the layers numbered in ids
DestroyAll(ls, ids) ==
    [u \in DOMAIN ls |->
        IF u \in ids THEN [ls[u] EXCEPT !.destroyCalls = @ + 1] ELSE ls[u]]

\* destroy(): last names the geometries and textures whose destroy() it
\* called, and whether scene._deregisterModel(this) was called
Destroy ==
    /\ \E isModel \in BOOLEAN :
          last' = [op |-> "destroy", geometriesDestroyed |-> DOMAIN geometries,
                   texturesDestroyed |-> {}, isModel |-> isModel,
                   deregistered |-> isModel]
    /\ nOps' = nOps + 1
    /\ layers' = DestroyAll(DestroyAll(layers, Range(currentBatchingLayers)),
                            SeqRange(layerList))
    /\ currentBatchingLayers' = <<>>
    /\ nodes' = <<>>
    /\ geometries' = <<>>
    /\ textures' = <<>>
    /\ textureSets' = <<>>
    /\ meshes' = <<>>
    /\ destroyed' = TRUE
    /\ UNCHANGED <<modelFlags, renderVars, viewerVars, rendererVars>>
    /\ UNCHANGED <<maxGeometryBatchSize, numGeometries, numTriangles, pendingLoads,
                   nodeList, layerList, instancingLayers, lastKeyVars, tempVec3a,
                   redraws, finalizeCalls>>

-----------------------------------------------------------------------------
(* Inputs *)

\* A createGeometry cfg: one triangle given by raw positions
BaseGeometryCfg ==
    [id |-> "g1", primitive |-> "triangles", positions |-> 9,
     positionsCompressed |-> NoArr, positionsDecodeMatrix |-> NoMat,
     uvCompressed |-> NoArr, uvDecodeMatrix |-> NoMat, indices |-> 3]

\* A createMesh cfg: one batched triangle given by raw positions
BaseMeshCfg ==
    [id |-> "m1", geometryId |-> NoId, textureSetId |-> NoId,
     primitive |-> "triangles", positions |-> 3, worldCenter |-> 0,
     positionsCompressed |-> NoArr, positionsDecodeMatrix |-> NoMat,
     normals |-> NoArr, normalsCompressed |-> NoArr, colors |-> NoArr,
     colorsCompressed |-> NoArr, uv |-> NoArr, uvCompressed |-> NoArr,
     uvDecodeMatrix |-> NoMat, indices |-> 3, origin |-> NoVec]

BaseTextureSetCfg ==
    [id |-> "ts1", colorTextureId |-> NoId, metallicRoughnessTextureId |-> NoId,
     normalsTextureId |-> NoId, emissiveTextureId |-> NoId,
     occlusionTextureId |-> NoId]

-----------------------------------------------------------------------------
(* The life cycle: create*, finalize and destroy in any order *)

LifeGeometryCfgs ==
    {[BaseGeometryCfg EXCEPT !.positions = p] : p \in {NoArr, 9}}

LifeMeshCfgs ==
    {[BaseMeshCfg EXCEPT !.id = i, !.geometryId = g, !.origin = o] :
        i \in {"m1", "m2"}, g \in {NoId, "g1"}, o \in {NoVec, 1}}

LifeEntityCfgs ==
    {[id |-> i, meshIds |-> ms] :
        i \in {NoId, "e1"}, ms \in {NoMeshIds, <<"m1">>, <<"m1", "m2">>}}

LifeCreateGeometry ==
    nOps < MaxOps /\ \E cfg \in LifeGeometryCfgs : CreateGeometry(cfg)

LifeCreateMesh ==
    nOps < MaxOps /\ \E cfg \in LifeMeshCfgs : CreateMesh(cfg)

LifeCreateEntity ==
    nOps < MaxOps /\ \E cfg \in LifeEntityCfgs : CreateEntity(cfg)

LifeFinalize == nOps < MaxOps /\ Finalize

LifeDestroy == nOps < MaxOps /\ Destroy

Next ==
    \/ LifeCreateGeometry
    \/ LifeCreateMesh
    \/ LifeCreateEntity
    \/ LifeFinalize
    \/ LifeDestroy

Spec == Init /\ [][Next]_vars

-----------------------------------------------------------------------------
(* Claims about the life cycle, checked under Spec *)

CreateOps == {"createGeometry", "createMesh", "createEntity"}

\* C1: once finalize() has run, every later createGeometry, createMesh or
\* createEntity call is rejected: it registers no geometry, mesh or entity,
\* creates no layer and adds no portion to a layer.
C1_CreateAfterFinalizeRejected ==
    [][(finalizeCalls > 0 /\ last'.op \in CreateOps) =>
          /\ DOMAIN geometries' \subseteq DOMAIN geometries
          /\ DOMAIN meshes' \subseteq DOMAIN meshes
          /\ DOMAIN nodes' \subseteq DOMAIN nodes
          /\ Len(layers') = Len(layers)
          /\ layerList' = layerList
          /\ \A u \in DOMAIN layers : layers'[u].portions = layers[u].portions]_vars

\* C2: a finalize() call that directly follows a finalize() call is a no-op:
\* no layer has its finalize() invoked again, and the layer list and every
\* layer's layerIndex stay as the first call left them.
C2_SecondFinalizeNoOp ==
    [][(last.op = "finalize" /\ last'.op = "finalize" /\ ~destroyed) =>
          /\ \A u \in DOMAIN layers :
                 layers'[u].finalizeCalls = layers[u].finalizeCalls
          /\ layerList' = layerList
          /\ \A u \in DOMAIN layers :
                 layers'[u].layerIndex = layers[u].layerIndex]_vars

-----------------------------------------------------------------------------
(* Batched meshes that differ in one part of the layer key *)

\* The id of the mesh that the n-th operation creates
MeshIdAt(n) == "m" \o ToString(n + 1)

\* The mesh cfgs tried: the base cfg, and the base cfg changed in one part
MeshVariants ==
    {BaseMeshCfg,
     [BaseMeshCfg EXCEPT !.origin = 1],
     [BaseMeshCfg EXCEPT !.worldCenter = 1],
     [BaseMeshCfg EXCEPT !.origin = 1, !.worldCenter = 1],
     [BaseMeshCfg EXCEPT !.positions = NoArr, !.positionsCompressed = 3,
                         !.positionsDecodeMatrix = "M1"],
     [BaseMeshCfg EXCEPT !.positions = NoArr, !.positionsCompressed = 3,
                         !.positionsDecodeMatrix = "M2"],
     [BaseMeshCfg EXCEPT !.uvCompressed = 2, !.uvDecodeMatrix = "U1"],
     [BaseMeshCfg EXCEPT !.textureSetId = "ts1"],
     [BaseMeshCfg EXCEPT !.normals = 3],
     [BaseMeshCfg EXCEPT !.primitive = "points", !.indices = NoArr]}

InitLargestBatch == Init /\ maxGeometryBatchSize = MaxBatchSize

KeysCreateTextureSet ==
    nOps = 0 /\ CreateTextureSet(BaseTextureSetCfg)

KeysCreateMesh ==
    /\ nOps < MaxKeyOps
    /\ \E v \in MeshVariants : CreateMesh([v EXCEPT !.id = MeshIdAt(nOps)])

NextKeys == KeysCreateTextureSet \/ KeysCreateMesh

SpecKeys == InitLargestBatch /\ [][NextKeys]_vars

BatchingLayers == {u \in DOMAIN layers : layers[u].kind = "batching"}

PortionsOf(u) == SeqRange(layers[u].portions)

\* The last operation created a batched mesh
BatchedMeshCreated(l) ==
    l.op = "createMesh" /\ l.error = "ok" /\ l.cfg.geometryId = NoId

\* C3: every portion of a batching layer was created with the texture set
\* the layer was built with.
C3_OneTextureSetPerLayer ==
    \A u \in BatchingLayers : layers[u].class = "triangles" =>
        \A p \in PortionsOf(u) : p.textureSetId = layers[u].textureSet

\* C4: every portion of a batching layer was created with the
\* positions-decode-matrix (or the absence of one) the layer was built with.
C4_OneDecodeMatrixPerLayer ==
    \A u \in BatchingLayers :
        \A p \in PortionsOf(u) :
            p.positionsDecodeMatrix = layers[u].positionsDecodeMatrix

\* Every portion of a batching layer has the origin the layer was built with
OneOriginPerLayer ==
    \A u \in BatchingLayers : \A p \in PortionsOf(u) : p.origin = layers[u].origin

\* A batched mesh whose origin differs from the remembered one finalizes
\* every open batching layer, adds no portion to it and removes it from the
\* open set
OriginChangeFlushes ==
    (BatchedMeshCreated(last') /\ lastOrigin # lastOrigin') =>
        \A u \in Range(currentBatchingLayers) :
            /\ layers'[u].finalizeCalls = layers[u].finalizeCalls + 1
            /\ layers'[u].portions = layers[u].portions
            /\ u \notin Range(currentBatchingLayers')

\* C5: all portions of a batching layer share the layer's origin, and a
\* batched mesh whose resolved origin differs from that of the previous
\* batched mesh finalizes and closes every open batching layer before its
\* portion is created.
C5_OneOriginPerLayer == []OneOriginPerLayer /\ [][OriginChangeFlushes]_vars

\* C5 witness: an origin change has closed two open layers of different
\* primitives and the mesh went into a third layer
C5_Witness ==
    /\ Len(layers) = 3
    /\ layers[1].finalizeCalls = 1 /\ layers[2].finalizeCalls = 1
    /\ layers[1].class # layers[2].class
    /\ layers[1].origin = layers[2].origin
    /\ layers[3].origin # layers[1].origin
    /\ Len(layers[3].portions) = 1

-----------------------------------------------------------------------------
(* Batched meshes of several sizes against the vertex budget *)

\* The mesh shapes tried against the budget, each with every vertex count
BudgetShapes ==
    {BaseMeshCfg,
     [BaseMeshCfg EXCEPT !.indices = 6],
     [BaseMeshCfg EXCEPT !.normals = 3],
     [BaseMeshCfg EXCEPT !.origin = 1],
     [BaseMeshCfg EXCEPT !.primitive = "points", !.indices = NoArr]}

\* The shape with n vertices: three coordinates for each vertex
WithVerts(shape, n) ==
    IF shape.positions # NoArr
    THEN [shape EXCEPT !.positions = 3 * n]
    ELSE [shape EXCEPT !.positionsCompressed = 3 * n]

BudgetCreateMesh ==
    /\ nOps < MaxBatchOps
    /\ \E shape \in BudgetShapes, n \in 1..MaxMeshVerts :
          CreateMesh([WithVerts(shape, n) EXCEPT !.id = MeshIdAt(nOps)])

BudgetFinalize == nOps < MaxBatchOps /\ Finalize

NextBudget == BudgetCreateMesh \/ BudgetFinalize

SpecBudget == Init /\ [][NextBudget]_vars

\* C6: no batching layer holds more vertices than maxGeometryBatchSize.
C6_LayerWithinBudget ==
    \A u \in BatchingLayers : layers[u].numVerts <= layers[u].maxGeometryBatchSize

\* Two batched mesh cfgs with one layer key
SameLayerKey(a, b) ==
    /\ PrimitiveId(a) = PrimitiveId(b)
    /\ BatchingOrigin(a) = BatchingOrigin(b)
    /\ a.positionsDecodeMatrix = b.positionsDecodeMatrix
    /\ a.uvDecodeMatrix = b.uvDecodeMatrix
    /\ a.textureSetId = b.textureSetId
    /\ NormalsProvided(a) = NormalsProvided(b)

\* The vertices a mesh cfg brings
VertsOf(cfg) == LenPositions(cfg) \div 3

\* A batched mesh that follows a batched mesh with the same layer key goes
\* into the open layer when it fits, and otherwise closes that layer and
\* opens one new layer
SameKeyStep ==
    (BatchedMeshCreated(last) /\ BatchedMeshCreated(last')
        /\ SameLayerKey(last.cfg, last'.cfg)) =>
        LET pid == PrimitiveId(last.cfg)
            open == currentBatchingLayers[pid]
        IN  /\ Has(currentBatchingLayers, pid)
            /\ layers[open].finalizeCalls = 0
            /\ IF layers[open].numVerts + VertsOf(last'.cfg)
                      <= layers[open].maxGeometryBatchSize
               THEN /\ Len(layers') = Len(layers)
                    /\ Len(layers'[open].portions) = Len(layers[open].portions) + 1
                    /\ layers'[open].finalizeCalls = 0
                    /\ currentBatchingLayers'[pid] = open
               ELSE /\ Len(layers') = Len(layers) + 1
                    /\ layers'[open].portions = layers[open].portions
                    /\ layers'[open].finalizeCalls = 1
                    /\ Len(layers'[Len(layers')].portions) = 1
                    /\ currentBatchingLayers'[pid] = Len(layers')

\* C7: meshes with one layer key are added to the open layer while
\* canCreatePortion holds; the first one for which it does not hold finalizes
\* that layer and starts exactly one new layer, so the layer count grows by
\* one exactly when the budget is crossed.
C7_NewLayerAtBudgetCrossing == [][SameKeyStep]_vars

\* C7 witness: a second mesh with the key of the first did not fit the open
\* layer, which was within its budget, and went into a second layer
C7_Witness ==
    /\ BatchedMeshCreated(last)
    /\ Len(layers) = 2
    /\ layers[1].finalizeCalls = 1 /\ layers[2].finalizeCalls = 0
    /\ Len(layers[1].portions) = 1 /\ Len(layers[2].portions) = 1
    /\ layers[1].portions[1].primitiveId = layers[2].portions[1].primitiveId
    /\ layers[1].origin = layers[2].origin
    /\ layers[1].positionsDecodeMatrix = layers[2].positionsDecodeMatrix
    /\ layers[1].numVerts <= maxGeometryBatchSize
    /\ layers[1].numVerts + layers[2].numVerts > maxGeometryBatchSize

RECURSIVE SumIndices(_)
\* The index counts of a sequence of portions, added up
SumIndices(portions) ==
    IF portions = <<>> THEN 0
    ELSE Head(portions).numIndices + SumIndices(Tail(portions))

RECURSIVE SumVerts(_)
\* The vertex counts of a sequence of portions, added up
SumVerts(portions) ==
    IF portions = <<>> THEN 0
    ELSE Head(portions).numVerts + SumVerts(Tail(portions))

RECURSIVE AllPortions(_)
\* The portions of the layers 1..n, one layer after the other
AllPortions(n) ==
    IF n = 0 THEN <<>> ELSE AllPortions(n - 1) \o layers[n].portions

\* N >= 1 triangle meshes with one layer key that fit one layer together were
\* created and then the model was finalized, and nothing else happened
OneKeyRunFinalized ==
    LET ps == AllPortions(Len(layers))
    IN  /\ last.op = "finalize" /\ finalizeCalls = 1
        /\ Len(ps) >= 1
        /\ nOps = Len(ps) + 1
        /\ \A i \in DOMAIN ps :
              /\ IsTriangles(ps[i].primitiveId[1])
              /\ ps[i].primitiveId = ps[1].primitiveId
              /\ ps[i].origin = ps[1].origin
              /\ ps[i].positionsDecodeMatrix = ps[1].positionsDecodeMatrix
              /\ ps[i].uvDecodeMatrix = ps[1].uvDecodeMatrix
              /\ ps[i].textureSetId = ps[1].textureSetId
              /\ ps[i].normals = ps[1].normals
        /\ SumVerts(ps) <= maxGeometryBatchSize

\* C8: after N >= 1 triangle meshes without geometryId that share one layer
\* key and fit one layer together, and finalize, there is exactly one
\* batching layer, it holds N portions, and numTriangles is the sum over the
\* meshes of indices.length / 3.
C8_OneLayerForOneKey ==
    OneKeyRunFinalized =>
        /\ Len(layers) = 1
        /\ layers[1].kind = "batching"
        /\ Len(layers[1].portions) = nOps - 1
        /\ layers[1].finalizeCalls = 1
        /\ 3 * numTriangles = SumIndices(layers[1].portions)

\* C8 witness: two triangle meshes, of one and of two triangles, in the one
\* layer of the finalized model
C8_Witness ==
    /\ OneKeyRunFinalized
    /\ Len(layers[1].portions) = 2
    /\ numTriangles = 3

-----------------------------------------------------------------------------
(* createGeometry with well-formed and malformed cfgs *)

GeometryCfgs ==
    {cfg \in [id : {NoId, "g1"},
              primitive : {NoId, "triangles", "points", "quads"},
              positions : {NoArr, 9},
              positionsCompressed : {NoArr, 9},
              positionsDecodeMatrix : {NoMat, "M1"},
              uvCompressed : {NoArr, 6},
              uvDecodeMatrix : {NoMat, "U1"},
              indices : {NoArr, 3}] :
        /\ cfg.positions = NoArr \/ cfg.positionsCompressed = NoArr
        /\ cfg.positionsDecodeMatrix = NoMat \/ cfg.positionsCompressed # NoArr
        /\ cfg.uvDecodeMatrix = NoMat \/ cfg.uvCompressed # NoArr}

GeometryCreate ==
    /\ nOps < MaxGeometryOps
    /\ \E cfg \in GeometryCfgs : CreateGeometry(cfg)

NextGeometry == GeometryCreate

SpecGeometry == InitLargestBatch /\ [][NextGeometry]_vars

\* The failures of createGeometry that the contract lists
ListedGeometryFailure(cfg) ==
    \/ cfg.id \in DOMAIN geometries
    \/ cfg.id = NoId
    \/ cfg.primitive = NoId
    \/ cfg.primitive \notin {"points", "lines", "triangles", "solid", "surface"}
    \/ (cfg.positions = NoArr /\ cfg.positionsCompressed = NoArr)
    \/ (cfg.positionsCompressed # NoArr /\ cfg.positionsDecodeMatrix = NoMat)
    \/ (cfg.uvCompressed # NoArr /\ cfg.uvDecodeMatrix = NoMat)
    \/ (cfg.indices = NoArr /\ cfg.primitive # "points")

\* C9: a createGeometry call that fails for one of the listed reasons
\* registers nothing: the geometry registry, numGeometries and numTriangles
\* are unchanged, and a geometry registered under that id stays as it was.
C9_FailedGeometryRegistersNothing ==
    [][(last'.op = "createGeometry" /\ ListedGeometryFailure(last'.cfg)) =>
          /\ geometries' = geometries
          /\ numGeometries' = numGeometries
          /\ numTriangles' = numTriangles]_vars

\* C9 witness: a second createGeometry under the id of a registered triangle
\* geometry came with points and left the geometry and the counts alone
C9_Witness ==
    /\ last.op = "createGeometry" /\ nOps = 2
    /\ last.cfg.id = "g1" /\ last.cfg.primitive = "points"
    /\ Has(geometries, "g1") /\ geometries["g1"].primitive = "triangles"
    /\ numGeometries = 1 /\ numTriangles = 1

-----------------------------------------------------------------------------
(* createTexture with supported and unsupported options *)

\* For each option a value createTexture supports, other than the default
SupportedOptions ==
    [minFilter |-> LinearFilter, magFilter |-> NearestFilter,
     wrapS |-> ClampToEdgeWrapping, wrapT |-> MirroredRepeatWrapping,
     wrapR |-> ClampToEdgeWrapping, encoding |-> sRGBEncoding]

\* For each option a value createTexture does not support for it
UnsupportedOptions ==
    [minFilter |-> NearestFilter, magFilter |-> LinearMipmapLinearFilter,
     wrapS |-> LinearFilter, wrapT |-> LinearFilter,
     wrapR |-> sRGBEncoding, encoding |-> RepeatWrapping]

OmittedOptions == [f \in DOMAIN SupportedOptions |-> NoId]

\* No option given, one option given, or all six given
TextureOptions ==
    {OmittedOptions, SupportedOptions, UnsupportedOptions}
    \cup {[OmittedOptions EXCEPT ![f] = SupportedOptions[f]] :
             f \in DOMAIN SupportedOptions}
    \cup {[OmittedOptions EXCEPT ![f] = UnsupportedOptions[f]] :
             f \in DOMAIN SupportedOptions}

TextureSources ==
    {[src |-> FALSE, image |-> FALSE, buffers |-> FALSE],
     [src |-> TRUE, image |-> FALSE, buffers |-> FALSE],
     [src |-> FALSE, image |-> TRUE, buffers |-> FALSE],
     [src |-> FALSE, image |-> FALSE, buffers |-> TRUE],
     [src |-> TRUE, image |-> TRUE, buffers |-> FALSE]}

TextureCfg(id, source, o) ==
    [id |-> id, src |-> source.src, image |-> source.image,
     buffers |-> source.buffers, minFilter |-> o.minFilter,
     magFilter |-> o.magFilter, wrapS |-> o.wrapS, wrapT |-> o.wrapT,
     wrapR |-> o.wrapR, encoding |-> o.encoding]

TextureCreate ==
    /\ nOps < MaxTextureOps
    /\ \E id \in {NoId, "t1", defaultColorTextureId}, source \in TextureSources,
          o \in TextureOptions : CreateTexture(TextureCfg(id, source, o))

TextureImageOnload == \E id \in pendingLoads : ImageOnload(id)

NextTexture == TextureCreate \/ TextureImageOnload

SpecTexture == InitLargestBatch /\ [][NextTexture]_vars

\* The option is given with a value createTexture does not support
Unsupported(given, supported) == given # NoId /\ given \notin supported

\* What the contract says of a createTexture call with this cfg
TextureContract(cfg) ==
    IF cfg.id = NoId THEN TRUE
    ELSE IF cfg.id \in DOMAIN textures \/ (~cfg.src /\ ~cfg.image /\ ~cfg.buffers)
    THEN textures' = textures
    ELSE /\ DOMAIN textures' = DOMAIN textures \cup {cfg.id}
         /\ \A id \in DOMAIN textures : textures'[id] = textures[id]
         /\ Unsupported(cfg.minFilter, MinFilters) =>
                textures'[cfg.id].minFilter = "LinearMipmapLinearFilter"
         /\ Unsupported(cfg.magFilter, MagFilters) =>
                textures'[cfg.id].magFilter = "LinearFilter"
         /\ Unsupported(cfg.wrapS, Wrappings) =>
                textures'[cfg.id].wrapS = "RepeatWrapping"
         /\ Unsupported(cfg.wrapT, Wrappings) =>
                textures'[cfg.id].wrapT = "RepeatWrapping"
         /\ Unsupported(cfg.wrapR, Wrappings) =>
                textures'[cfg.id].wrapR = "RepeatWrapping"
         /\ Unsupported(cfg.encoding, Encodings) =>
                textures'[cfg.id].encoding = "LinearEncoding"

\* C10: createTexture with an unsupported minFilter, magFilter, wrapS, wrapT,
\* wrapR or encoding still registers the texture, with the documented default
\* for that option; createTexture with a registered id, or with none of src,
\* image and buffers, leaves the texture registry unchanged.
C10_TextureOptionDefaults ==
    [][last'.op = "createTexture" => TextureContract(last'.cfg)]_vars

\* C10 witness: the texture created with a minFilter that createTexture
\* does not support is registered with the default minFilter
C10_Witness ==
    /\ last.op = "createTexture" /\ nOps = 1
    /\ last.cfg.id = "t1" /\ last.cfg.minFilter = NearestFilter
    /\ Has(textures, "t1")
    /\ textures["t1"].minFilter = LinearMipmapLinearFilter

-----------------------------------------------------------------------------
(* Image loads that complete before and after destroy *)

LoadCfgs ==
    {TextureCfg(id, source, OmittedOptions) :
        id \in {"t1", "t2"},
        source \in {[src |-> TRUE, image |-> FALSE, buffers |-> FALSE],
                    [src |-> FALSE, image |-> TRUE, buffers |-> FALSE]}}

LoadCreateTexture ==
    nOps < MaxLoadOps /\ \E cfg \in LoadCfgs : CreateTexture(cfg)

LoadDestroy == nOps < MaxLoadOps /\ Destroy

LoadImageOnload == \E id \in pendingLoads : ImageOnload(id)

NextLoad == LoadCreateTexture \/ LoadDestroy \/ LoadImageOnload

SpecLoad == InitLargestBatch /\ [][NextLoad]_vars

\* C11: a load-completion handler that runs after the owning model was
\* destroyed is ignored: it calls neither setImage on the texture nor
\* glRedraw.
C11_LateLoadIgnored ==
    [][(destroyed /\ last'.op = "imageOnload") =>
          (last'.calls = <<>> /\ redraws' = redraws)]_vars

-----------------------------------------------------------------------------
(* createTextureSet with registered, unregistered and omitted texture ids *)

\* The texture-id fields of a createTextureSet cfg
TextureIdFields == {TextureRoles[r][1] : r \in DOMAIN TextureRoles}

\* Every field omitted, one field given, or all five given; the id given is
\* that of a texture the run may register ("t1") or never registers ("t9")
TextureSetCfgs ==
    LET omitted == [BaseTextureSetCfg EXCEPT !.id = NoId]
        base == {omitted}
                \cup {[f \in DOMAIN omitted |->
                          IF f \in TextureIdFields THEN t ELSE NoId] :
                         t \in {"t1", "t9"}}
                \cup {[omitted EXCEPT ![f] = t] :
                         f \in TextureIdFields, t \in {"t1", "t9"}}
    IN  {[c EXCEPT !.id = i] : c \in base, i \in {"ts1", defaultTextureSetId}}

SetCreateTexture ==
    /\ nOps < MaxSetOps
    /\ CreateTexture(TextureCfg("t1", [src |-> FALSE, image |-> TRUE,
                                       buffers |-> FALSE], OmittedOptions))

SetCreateTextureSet ==
    nOps < MaxSetOps /\ \E cfg \in TextureSetCfgs : CreateTextureSet(cfg)

NextTextureSet == SetCreateTexture \/ SetCreateTextureSet

SpecTextureSet == InitLargestBatch /\ [][NextTextureSet]_vars

\* Every registered texture set has each of its five roles bound to a
\* registered texture
RolesBound ==
    \A ts \in DOMAIN textureSets :
        /\ DOMAIN textureSets[ts] = {"colorTexture", "metallicRoughnessTexture",
               "normalsTexture", "emissiveTexture", "occlusionTexture"}
        /\ \A r \in DOMAIN textureSets[ts] : textureSets[ts][r] \in DOMAIN textures

\* What the contract says of a createTextureSet call with this cfg
TextureSetContract(cfg) ==
    IF \/ cfg.id \in DOMAIN textureSets
       \/ \E f \in TextureIdFields : cfg[f] # NoId /\ cfg[f] \notin DOMAIN textures
    THEN textureSets' = textureSets
    ELSE /\ DOMAIN textureSets' = DOMAIN textureSets \cup {cfg.id}
         /\ \A ts \in DOMAIN textureSets : textureSets'[ts] = textureSets[ts]
         /\ LET set == textureSets'[cfg.id]
                Bound(given, placeholder) ==
                    IF given = NoId THEN placeholder ELSE given
            IN  /\ set.colorTexture =
                       Bound(cfg.colorTextureId, "defaultColorTexture")
                /\ set.metallicRoughnessTexture =
                       Bound(cfg.metallicRoughnessTextureId, "defaultMetalRoughTexture")
                /\ set.normalsTexture =
                       Bound(cfg.normalsTextureId, "defaultNormalsTexture")
                /\ set.emissiveTexture =
                       Bound(cfg.emissiveTextureId, "defaultEmissiveTexture")
                /\ set.occlusionTexture =
                       Bound(cfg.occlusionTextureId, "defaultOcclusionTexture")

-----------------------------------------------------------------------------
(* createMesh with cfgs that are accepted and cfgs that are turned down *)

AcceptedMeshCfgs ==
    {BaseMeshCfg,
     [BaseMeshCfg EXCEPT !.id = "m2", !.origin = 1],
     [BaseMeshCfg EXCEPT !.id = "m2", !.geometryId = "g1"]}

AbortedMeshCfgs ==
    LET m2 == [BaseMeshCfg EXCEPT !.id = "m2"]
    IN  {[BaseMeshCfg EXCEPT !.id = NoId],
         [m2 EXCEPT !.geometryId = "g9"],
         [m2 EXCEPT !.textureSetId = "ts9"],
         [m2 EXCEPT !.primitive = "quads"],
         [m2 EXCEPT !.positions = NoArr],
         [m2 EXCEPT !.positionsCompressed = 3, !.positionsDecodeMatrix = "M1"],
         [m2 EXCEPT !.positions = NoArr, !.positionsCompressed = 3],
         [m2 EXCEPT !.uvCompressed = 2],
         [m2 EXCEPT !.indices = NoArr]}

AbortCreateGeometry == nOps < MaxAbortOps /\ CreateGeometry(BaseGeometryCfg)

AbortCreateMesh ==
    /\ nOps < MaxAbortOps
    /\ \E cfg \in AcceptedMeshCfgs \cup AbortedMeshCfgs : CreateMesh(cfg)

NextAbort == AbortCreateGeometry \/ AbortCreateMesh

SpecAbort == InitLargestBatch /\ [][NextAbort]_vars

\* The reasons for which the contract has createMesh abort
ListedMeshAbort(cfg) ==
    \/ cfg.id = NoId
    \/ cfg.id \in DOMAIN meshes
    \/ (cfg.geometryId # NoId /\ cfg.geometryId \notin DOMAIN geometries)
    \/ (cfg.textureSetId # NoId /\ cfg.textureSetId \notin DOMAIN textureSets)
    \/ /\ cfg.geometryId = NoId
       /\ \/ (cfg.primitive # NoId /\ cfg.primitive \notin
                 {"points", "lines", "triangles", "solid", "surface"})
          \/ (cfg.positions = NoArr /\ cfg.positionsCompressed = NoArr)
          \/ (cfg.positions # NoArr /\ cfg.positionsCompressed # NoArr)
          \/ (cfg.positionsCompressed # NoArr /\ cfg.positionsDecodeMatrix = NoMat)
          \/ (cfg.uvCompressed # NoArr /\ cfg.uvDecodeMatrix = NoMat)
          \/ (cfg.indices = NoArr /\ cfg.primitive # "points")

\* C13: an aborted createMesh leaves the mesh registry, the layer list, the
\* open batching layers, the remembered origin, decode-matrix, texture-set
\* and normals keys, numGeometries and numTriangles unchanged.
C13_AbortedMeshChangesNothing ==
    [][(last'.op = "createMesh" /\ ListedMeshAbort(last'.cfg)) =>
          /\ meshes' = meshes
          /\ layerList' = layerList
          /\ currentBatchingLayers' = currentBatchingLayers
          /\ lastOrigin' = lastOrigin
          /\ lastPositionsDecodeMatrix' = lastPositionsDecodeMatrix
          /\ lastUVDecodeMatrix' = lastUVDecodeMatrix
          /\ lastTextureSetId' = lastTextureSetId
          /\ lastNormals' = lastNormals
          /\ numGeometries' = numGeometries
          /\ numTriangles' = numTriangles]_vars

\* C13 witness: after one batched mesh, a mesh cfg without indices was
\* turned down and the open layer, the keys and the counts are those the
\* first mesh left
C13_Witness ==
    /\ last.op = "createMesh" /\ nOps = 2
    /\ last.cfg.id = "m2" /\ last.cfg.indices = NoArr
    /\ DOMAIN meshes = {"m1"}
    /\ layerList = <<1>> /\ Range(currentBatchingLayers) = {1}
    /\ lastOrigin = ModelOrigin
    /\ numGeometries = 1 /\ numTriangles = 1

-----------------------------------------------------------------------------
(* The pick color of a mesh *)

\* A 32-bit pick id is kept as its two 16-bit halves: pickId = hi * 2^16 + lo
HalfWords == {0, 1, 255, 256, 32767, 32768, 65535}

PickIds == [hi : HalfWords, lo : HalfWords]

\* ToInt32(pickId), the operand of >> and & : the pick id as a signed
\* 32-bit integer
ToInt32(pickId) ==
    (IF pickId.hi >= 32768 THEN pickId.hi - 65536 ELSE pickId.hi) * 65536
    + pickId.lo

\* x >> k on a signed 32-bit integer: the sign-propagating shift
ShiftRight(x, k) == x \div (2 ^ k)

\* x & 0xFF on a signed 32-bit integer: the low byte of its two's complement
AndFF(x) == x % 256

\* The bytes in the order a, b, g, r
PickColorReversed(pickId) ==
    LET x == ToInt32(pickId)
    IN  <<AndFF(ShiftRight(x, 24)), AndFF(ShiftRight(x, 16)),
          AndFF(ShiftRight(x, 8)), AndFF(x)>>

\* const a = pickId >> 24 & 0xFF; .. const r = pickId & 0xFF;
\* const pickColor = new Uint8Array([r, g, b, a])
PickColor(pickId) ==
    LET x == ToInt32(pickId)
    IN  <<AndFF(x), AndFF(ShiftRight(x, 8)), AndFF(ShiftRight(x, 16)),
          AndFF(ShiftRight(x, 24))>>

\* createMesh derives the pick colors of two meshes from their pick ids
PickColorsOfMeshes ==
    /\ nOps = 0
    /\ nOps' = 1
    /\ \E p \in PickIds, q \in PickIds :
          last' = [op |-> "pickColor", pickIds |-> <<p, q>>,
                   pickColors |-> <<PickColor(p), PickColor(q)>>]
    /\ UNCHANGED <<modelFlags, renderVars, viewerVars, rendererVars>>
    /\ UNCHANGED <<maxGeometryBatchSize, geometryVars, numTriangles, textureVars,
                   meshes, nodeVars, layerVars, lastKeyVars, tempVec3a, destroyed,
                   redraws, finalizeCalls>>

NextPick == PickColorsOfMeshes

SpecPick == InitLargestBatch /\ [][NextPick]_vars

\* The color is [r, g, b, a] with r the lowest byte of the pick id, and
\* r + g * 2^8 + b * 2^16 + a * 2^24 is the pick id: r + g * 2^8 is its low
\* half and b + a * 2^8 its high half
PickBytes(pickId, color) ==
    /\ color[1] = pickId.lo % 256
    /\ color[2] = pickId.lo \div 256
    /\ color[3] = pickId.hi % 256
    /\ color[4] = pickId.hi \div 256
    /\ color[1] + color[2] * 256 = pickId.lo
    /\ color[3] + color[4] * 256 = pickId.hi

\* C14: the pick color is [pickId & 0xFF, (pickId >> 8) & 0xFF,
\* (pickId >> 16) & 0xFF, (pickId >> 24) & 0xFF]; the four bytes give back the
\* pick id modulo 2^32, and meshes with different pick ids get different
\* pick colors.
C14_PickColorBytes ==
    last.op = "pickColor" =>
        /\ PickBytes(last.pickIds[1], last.pickColors[1])
        /\ PickBytes(last.pickIds[2], last.pickColors[2])
        /\ last.pickIds[1] # last.pickIds[2] =>
               last.pickColors[1] # last.pickColors[2]

\* C14 witness: a pick id with its top bit set, which >> sign-extends, and
\* one that differs from it in the top byte only
C14_Witness ==
    /\ last.op = "pickColor"
    /\ last.pickIds = <<[hi |-> 65535, lo |-> 256], [hi |-> 255, lo |-> 256]>>
    /\ last.pickColors = <<(<<0, 1, 255, 255>>), (<<0, 1, 255, 0>>)>>

-----------------------------------------------------------------------------
(* Instanced meshes: geometries and texture sets whose ids contain a dot *)

InstGeometryCfgs ==
    {[BaseGeometryCfg EXCEPT !.id = g] : g \in {"box", "lod.box"}}

InstTextureSetCfgs ==
    {[BaseTextureSetCfg EXCEPT !.id = "defaultTextureSet.lod"]}

InstMeshCfgs ==
    {[BaseMeshCfg EXCEPT !.geometryId = g, !.textureSetId = ts, !.origin = o] :
        g \in {"box", "lod.box"}, ts \in {NoId, "defaultTextureSet.lod"},
        o \in {NoVec, 1}}

InstCreateGeometry ==
    nOps < MaxInstOps /\ \E cfg \in InstGeometryCfgs : CreateGeometry(cfg)

InstCreateTextureSet ==
    nOps < MaxInstOps /\ \E cfg \in InstTextureSetCfgs : CreateTextureSet(cfg)

InstCreateMesh ==
    /\ nOps < MaxInstOps
    /\ \E cfg \in InstMeshCfgs : CreateMesh([cfg EXCEPT !.id = MeshIdAt(nOps)])

NextInstancing == InstCreateGeometry \/ InstCreateTextureSet \/ InstCreateMesh

SpecInstancing == InitLargestBatch /\ [][NextInstancing]_vars

InstancingLayerNumbers == {u \in DOMAIN layers : layers[u].kind = "instancing"}

\* C15: meshes with a geometryId share an instancing layer if and only if
\* their resolved origin, textureSetId and geometryId are equal: every
\* portion of an instancing layer has the layer's geometry, texture set and
\* origin, and no two instancing layers are built for the same three.
C15_InstancingLayerKey ==
    /\ \A u \in InstancingLayerNumbers : \A p \in PortionsOf(u) :
          /\ p.geometryId = layers[u].geometryId
          /\ p.textureSetId = layers[u].textureSet
          /\ p.origin = layers[u].origin
    /\ \A u, v \in InstancingLayerNumbers :
          (/\ layers[u].geometryId = layers[v].geometryId
           /\ layers[u].textureSet = layers[v].textureSet
           /\ layers[u].origin = layers[v].origin) => u = v

-----------------------------------------------------------------------------
(* Entities over registered, unregistered, claimed and repeated mesh ids *)

EntityMeshCfgs ==
    {BaseMeshCfg,
     [BaseMeshCfg EXCEPT !.id = "m2", !.origin = 1],
     [BaseMeshCfg EXCEPT !.id = "m3", !.positions = 6]}

EntityCfgs ==
    {[id |-> i, meshIds |-> ms] :
        i \in {NoId, "e1"},
        ms \in {<<"m1">>, <<"m2">>, <<"m1", "m2">>, <<"m3", "m1">>,
                <<"m1", "m1">>, <<"m9", "m2">>}}

EntityCreateMesh ==
    nOps < MaxEntityOps /\ \E cfg \in EntityMeshCfgs : CreateMesh(cfg)

EntityCreate ==
    nOps < MaxEntityOps /\ \E cfg \in EntityCfgs : CreateEntity(cfg)

NextEntity == EntityCreateMesh \/ EntityCreate

SpecEntity == InitLargestBatch /\ [][NextEntity]_vars

\* C16: every mesh is a member of at most one Entity and appears at most
\* once in that Entity's mesh list.
C16_MeshInOneEntityOnce ==
    /\ \A m \in DOMAIN meshes :
          Cardinality({n \in DOMAIN nodes : m \in SeqRange(nodes[n].meshes)}) <= 1
    /\ \A n \in DOMAIN nodes :
          Cardinality(SeqRange(nodes[n].meshes)) = Len(nodes[n].meshes)

\* The smallest box that holds the boxes of the meshes in ms
UnionOfMeshAABBs(ms) ==
    LET mins == {meshes[m].aabb.min : m \in SeqRange(ms)}
        maxs == {meshes[m].aabb.max : m \in SeqRange(ms)}
    IN  [min |-> CHOOSE x \in mins : \A y \in mins : x <= y,
         max |-> CHOOSE x \in maxs : \A y \in maxs : x >= y]

\* C17: the AABB createEntity gives an Entity is the union of the AABBs of
\* the meshes it accepted, and with exactly one accepted mesh it is that
\* mesh's AABB.
C17_EntityAABBIsUnion ==
    \A n \in DOMAIN nodes :
        LET ms == nodes[n].meshes
        IN  /\ ms # <<>> => nodes[n].aabb = UnionOfMeshAABBs(ms)
            /\ Len(ms) = 1 => nodes[n].aabb = meshes[ms[1]].aabb

\* An Entity of two meshes whose box is larger than either mesh's box
C17_Witness ==
    /\ last.op = "createEntity"
    /\ \E n \in DOMAIN nodes :
          /\ nodes[n].meshes = <<"m1", "m2">>
          /\ nodes[n].aabb = [min |-> 0, max |-> 4]
          /\ meshes["m1"].aabb = [min |-> 0, max |-> 3]
          /\ meshes["m2"].aabb = [min |-> 1, max |-> 4]

-----------------------------------------------------------------------------
(* finalize() over layer lists of several sort ids, in any creation order *)

SortMeshCfgs ==
    {[BaseMeshCfg EXCEPT !.primitive = p, !.origin = o] :
        p \in {"triangles", "lines", "points"}, o \in {NoVec, 1}}

SortCreateMesh ==
    /\ nOps < MaxSortOps
    /\ \E cfg \in SortMeshCfgs : CreateMesh([cfg EXCEPT !.id = MeshIdAt(nOps)])

SortFinalize == nOps < MaxSortOps /\ Finalize

SortDestroy == nOps < MaxSortOps /\ Destroy

NextSort == SortCreateMesh \/ SortFinalize \/ SortDestroy

SpecSort == InitLargestBatch /\ [][NextSort]_vars

\* The position of layer u in a layer list
PositionIn(list, u) == CHOOSE i \in 1..Len(list) : list[i] = u

\* The list after the call holds the layers of the list before it, each once
PermutationOf(after, before) ==
    /\ Len(after) = Len(before)
    /\ SeqRange(after) = SeqRange(before)
    /\ \A i, j \in 1..Len(after) : after[i] = after[j] => i = j

\* Non-decreasing sortId; equal sortIds in the order of the list before
SortedStable(ls, after, before) ==
    \A i, j \in 1..Len(after) :
        i < j =>
            /\ SortId(ls[after[i]]) <= SortId(ls[after[j]])
            /\ SortId(ls[after[i]]) = SortId(ls[after[j]]) =>
                   PositionIn(before, after[i]) < PositionIn(before, after[j])

\* What finalize() leaves: a permutation of the list before the call, in
\* non-decreasing sortId order with equal sortIds in their earlier order, and
\* each layer's layerIndex its position
SortedAndIndexed ==
    /\ PermutationOf(layerList', layerList)
    /\ SortedStable(layers', layerList', layerList)
    /\ \A i \in 1..Len(layerList') : layers'[layerList'[i]].layerIndex = i - 1

\* C18 as stated: after finalize() the layer list is a permutation of the
\* list before the call, in non-decreasing sortId order with layers of equal
\* sortId in their earlier order, and each layer's layerIndex is its position.
C18_FinalizeSortsLayers ==
    [][last'.op = "finalize" => SortedAndIndexed]_vars

\* C18, amended: the same, after finalize() on a model that has not been
\* destroyed; on a destroyed model finalize() returns at once.
C18_FinalizeSortsLiveLayers ==
    [][(last'.op = "finalize" /\ ~destroyed) => SortedAndIndexed]_vars

\* finalize() has moved a later layer ahead of an earlier one and has kept
\* two layers of one sortId in their order
C18_Witness ==
    /\ last.op = "finalize"
    /\ ~destroyed
    /\ layerList = <<2, 3, 1>>
    /\ SortId(layers[2]) = SortId(layers[3])
    /\ SortId(layers[3]) < SortId(layers[1])

-----------------------------------------------------------------------------
(* rebuildRenderFlags() and the draw entry points *)

RECURSIVE SumPortions(_)
\* this.numPortions: the portions created in the layers of a layer list
SumPortions(list) ==
    IF list = <<>> THEN 0
    ELSE Len(layers[Head(list)].portions) + SumPortions(Tail(list))

numPortions == SumPortions(layerList)

\* The counters as the layers can leave them with n portions created: every
\* portion, or none, in each of the counted states
PortionCountsOf(n) ==
    {[NoPortionCounts EXCEPT ![f] = n] : f \in DOMAIN NoPortionCounts}
    \cup {[NoPortionCounts EXCEPT !.numVisibleLayerPortions = n, ![f] = n] :
             f \in DOMAIN NoPortionCounts}
    \cup {[f \in DOMAIN NoPortionCounts |->
             IF f = "numCulledLayerPortions" THEN 0 ELSE n]}

\* A setter of an Entity's flags, fanned out to the layers, which keep the
\* counters of the model
SetPortionFlags ==
    /\ \E c \in PortionCountsOf(numPortions) : layerPortionCounts' = c
    /\ last' = [op |-> "setPortionFlags"]
    /\ nOps' = nOps + 1
    /\ UNCHANGED <<maxGeometryBatchSize, geometryVars, numTriangles, textureVars,
                   meshes, nodeVars, layerVars, lastKeyVars, tempVec3a, destroyed,
                   redraws, renderFlags, finalizeCalls,
                   modelFlags, viewerVars, rendererVars>>

\* The _state of scene.xrayMaterial, selectedMaterial and highlightMaterial:
\* alphas in percent
EmphasisMaterials ==
    {[fill |-> TRUE, fillAlpha |-> 50, edges |-> TRUE, edgeAlpha |-> 50],
     [fill |-> TRUE, fillAlpha |-> 100, edges |-> TRUE, edgeAlpha |-> 100],
     [fill |-> FALSE, fillAlpha |-> 100, edges |-> FALSE, edgeAlpha |-> 100]}

\* renderFlags.reset(): visibleLayers keeps its entries
ResetRenderFlags(rf) ==
    [rf EXCEPT !.culled = FALSE, !.numLayers = 0, !.numVisibleLayers = 0,
               !.passes = {}]

\* _updateRenderFlagsVisibleLayers(): every layer index is entered
UpdateRenderFlagsVisibleLayers(rf) ==
    LET n == Len(layerList)
        old == rf.visibleLayers
        len == IF Len(old) > n THEN Len(old) ELSE n
    IN  [rf EXCEPT !.numLayers = n, !.numVisibleLayers = n,
                   !.visibleLayers =
                       [i \in 1..len |-> IF i <= n THEN i - 1 ELSE old[i]]]

\* The silhouette and edges passes one emphasis material asks for
EmphasisPasses(count, material, name) ==
    IF count > 0
    THEN (IF material.fill
          THEN (IF material.fillAlpha < 100
                THEN {name \o "SilhouetteTransparent"}
                ELSE {name \o "SilhouetteOpaque"})
          ELSE {})
         \cup (IF material.edges
               THEN (IF material.edgeAlpha < 100
                     THEN {name \o "EdgesTransparent"}
                     ELSE {name \o "EdgesOpaque"})
               ELSE {})
    ELSE {}

\* An _updateRenderFlags() that sets the color passes whatever the counters
UpdateRenderFlagsAlways(rf, xray, edgeMaterialEdges, selected, highlight) ==
    [rf EXCEPT !.passes = {"colorOpaque", "colorTransparent"}]

\* _updateRenderFlags(): the passes set to true
UpdateRenderFlags(rf, xray, edgeMaterialEdges, selected, highlight) ==
    LET c == layerPortionCounts
    IN  IF c.numVisibleLayerPortions = 0 THEN rf
        ELSE IF c.numCulledLayerPortions = numPortions THEN rf
        ELSE [rf EXCEPT !.passes =
                (IF c.numTransparentLayerPortions < numPortions
                 THEN {"colorOpaque"} ELSE {})
                \cup (IF c.numTransparentLayerPortions > 0
                      THEN {"colorTransparent"} ELSE {})
                \cup EmphasisPasses(c.numXRayedLayerPortions, xray, "xrayed")
                \cup (IF c.numEdgesLayerPortions > 0 /\ edgeMaterialEdges
                      THEN (IF c.numTransparentLayerPortions < numPortions
                            THEN {"edgesOpaque"} ELSE {})
                           \cup (IF c.numTransparentLayerPortions > 0
                                 THEN {"edgesTransparent"} ELSE {})
                      ELSE {})
                \cup EmphasisPasses(c.numSelectedLayerPortions, selected,
                                    "selected")
                \cup EmphasisPasses(c.numHighlightedLayerPortions, highlight,
                                    "highlighted")]

RebuildRenderFlags ==
    /\ \E material \in EmphasisMaterials, edgeMaterialEdges \in BOOLEAN :
          LET rf == UpdateRenderFlagsVisibleLayers(ResetRenderFlags(renderFlags))
          IN  renderFlags' =
                  IF rf.numLayers > 0 /\ rf.numVisibleLayers = 0
                  THEN [rf EXCEPT !.culled = TRUE]
                  ELSE UpdateRenderFlags(rf, material, edgeMaterialEdges,
                                         material, material)
    /\ last' = [op |-> "rebuildRenderFlags"]
    /\ nOps' = nOps + 1
    /\ UNCHANGED <<maxGeometryBatchSize, geometryVars, numTriangles, textureVars,
                   meshes, nodeVars, layerVars, lastKeyVars, tempVec3a, destroyed,
                   redraws, layerPortionCounts, finalizeCalls,
                   modelFlags, viewerVars, rendererVars>>

\* The draw entry points that loop over renderFlags.visibleLayers at once
UnguardedDraws ==
    {"drawColorOpaque", "drawColorTransparent", "drawSilhouetteXRayed",
     "drawSilhouetteHighlighted", "drawSilhouetteSelected",
     "drawEdgesColorOpaque", "drawEdgesColorTransparent", "drawEdgesXRayed",
     "drawEdgesHighlighted", "drawEdgesSelected"}

\* The draw entry points that first return when no portion is visible
GuardedDraws ==
    {"drawOcclusion", "drawShadow", "drawPickMesh", "drawPickDepths",
     "drawPickNormals"}

\* The layers a loop over renderFlags.visibleLayers calls the method on
VisibleLayerCalls ==
    [i \in 1..Len(renderFlags.visibleLayers) |->
        layerList[renderFlags.visibleLayers[i] + 1]]

\* One draw entry point: last.calls are the layers whose method it called
Draw(method) ==
    /\ last' = [op |-> method,
                calls |-> IF method \in GuardedDraws
                             /\ layerPortionCounts.numVisibleLayerPortions = 0
                          THEN <<>>
                          ELSE VisibleLayerCalls]
    /\ nOps' = nOps + 1
    /\ UNCHANGED <<maxGeometryBatchSize, geometryVars, numTriangles, textureVars,
                   meshes, nodeVars, layerVars, lastKeyVars, tempVec3a, destroyed,
                   redraws, renderVars, finalizeCalls,
                   modelFlags, viewerVars, rendererVars>>

RenderMeshCfgs ==
    {BaseMeshCfg, [BaseMeshCfg EXCEPT !.primitive = "points", !.origin = 1]}

RenderCreateMesh ==
    /\ nOps < MaxRenderOps
    /\ \E cfg \in RenderMeshCfgs : CreateMesh([cfg EXCEPT !.id = MeshIdAt(nOps)])

RenderSetPortionFlags == nOps < MaxRenderOps /\ SetPortionFlags

RenderRebuildRenderFlags == nOps < MaxRenderOps /\ RebuildRenderFlags

RenderDrawUnguarded ==
    nOps < MaxRenderOps /\ \E method \in UnguardedDraws : Draw(method)

RenderDrawGuarded ==
    nOps < MaxRenderOps /\ \E method \in GuardedDraws : Draw(method)

NextRender ==
    \/ RenderCreateMesh
    \/ RenderSetPortionFlags
    \/ RenderRebuildRenderFlags
    \/ RenderDrawUnguarded
    \/ RenderDrawGuarded

SpecRender == InitLargestBatch /\ [][NextRender]_vars

\* C19: when a model with at least one layer has no visible portion,
\* rebuildRenderFlags() marks the model culled and sets no render-pass flag.
C19_ZeroVisibleIsCulled ==
    [][(/\ last'.op = "rebuildRenderFlags"
        /\ Len(layerList) > 0
        /\ layerPortionCounts.numVisibleLayerPortions = 0)
       => (renderFlags'.culled /\ renderFlags'.passes = {})]_vars

\* C20: while the model has no visible portion, no draw entry point calls a
\* draw method on any layer.
C20_ZeroVisibleDrawsNothing ==
    (/\ last.op \in UnguardedDraws \cup GuardedDraws
     /\ layerPortionCounts.numVisibleLayerPortions = 0)
    => last.calls = <<>>

-----------------------------------------------------------------------------
(* destroy() *)

\* C21: after destroy() every layer of the layer list, every registered
\* geometry and every texture of the model has been destroyed, the
\* registries are empty and a model created with isModel is deregistered.
C21_DestroyReleasesEverything ==
    [][last'.op = "destroy" =>
          /\ \A u \in SeqRange(layerList) : layers'[u].destroyCalls > 0
          /\ last'.geometriesDestroyed = DOMAIN geometries
          /\ last'.texturesDestroyed = DOMAIN textures
          /\ geometries' = <<>> /\ textures' = <<>> /\ textureSets' = <<>>
          /\ meshes' = <<>> /\ nodes' = <<>>
          /\ last'.isModel => last'.deregistered]_vars

-----------------------------------------------------------------------------
(* Viewer: on(event, callback), fire(event, value), off(event) *)

\* this._eventSubs[event], an absent entry read as no subscriptions
SubsOf(event) == IF Has(eventSubs, event) THEN eventSubs[event] ELSE <<>>

\* on(event, callback): the callback is pushed on the event's array
On(event, callback) ==
    /\ eventSubs' = Put(eventSubs, event, Append(SubsOf(event), callback))
    /\ last' = [op |-> "on", event |-> event, callback |-> callback]
    /\ nOps' = nOps + 1
    /\ UNCHANGED <<modelVars, unsubscribed, rendererVars>>

\* fire(event, value): last.invoked lists the callbacks called, in order,
\* each with its place in the event's array
Fire(event, value) ==
    /\ last' = [op |-> "fire", event |-> event, value |-> value,
                invoked |-> [i \in 1..Len(SubsOf(event)) |->
                                [callback |-> SubsOf(event)[i], sub |-> i]]]
    /\ nOps' = nOps + 1
    /\ UNCHANGED <<modelVars, viewerVars, rendererVars>>

\* off(event): the body is empty.  The subscriptions the call was made on
\* are remembered in unsubscribed.
Off(event) ==
    /\ unsubscribed' =
           unsubscribed \cup {<<event, i>> : i \in 1..Len(SubsOf(event))}
    /\ last' = [op |-> "off", event |-> event]
    /\ nOps' = nOps + 1
    /\ UNCHANGED <<modelVars, eventSubs, rendererVars>>

ViewerEvents == {"loaded", "picked"}
ViewerCallbacks == {"f", "g"}

ViewerOn ==
    /\ nOps < MaxViewerOps
    /\ \E event \in ViewerEvents, callback \in ViewerCallbacks : On(event, callback)

ViewerFire ==
    nOps < MaxViewerOps /\ \E event \in ViewerEvents : Fire(event, nOps)

ViewerOff ==
    nOps < MaxViewerOps /\ \E event \in ViewerEvents : Off(event)

NextViewer == ViewerOn \/ ViewerFire \/ ViewerOff

SpecViewer == InitLargestBatch /\ [][NextViewer]_vars

\* C22: after off(event), the callbacks subscribed to the event before the
\* call are not invoked by a later fire(event, value).
C22_OffStopsCallbacks ==
    (last.op = "fire") =>
        \A i \in 1..Len(last.invoked) :
            <<last.event, last.invoked[i].sub>> \notin unsubscribed

-----------------------------------------------------------------------------
(* The batching renderers and the loss and restoration of the WebGL context *)

RendererClasses ==
    {"TrianglesBatchingDepthRenderer", "TrianglesBatchingPickDepthRenderer",
     "TrianglesBatchingPickMeshRenderer", "TrianglesBatchingEdgesColorRenderer"}

\* The classes whose drawLayer tests this.errors after it has re-allocated
ChecksErrorsAfterAllocate(class) ==
    class \in {"TrianglesBatchingDepthRenderer",
               "TrianglesBatchingEdgesColorRenderer"}

\* this._program = null
NoProgram == [generation |-> -1, errors |-> FALSE]

\* new Program(gl, shader): made in the context as it is now; errors when
\* the shader did not compile
NewProgram(compileFails) ==
    [generation |-> glContext.generation, errors |-> compileFails]

\* _allocate(): this.errors is set when the program has errors, and is
\* never cleared
Allocate(renderer, compileFails) ==
    [program |-> NewProgram(compileFails),
     errors |-> renderer.errors \/ compileFails]

\* constructor(scene): this._allocate()
ConstructRenderer(class) ==
    /\ ~Has(renderers, class)
    /\ \E compileFails \in BOOLEAN :
          renderers' = Put(renderers, class,
                           Allocate([program |-> NoProgram, errors |-> FALSE],
                                    compileFails))
    /\ last' = [op |-> "newRenderer", renderer |-> class]
    /\ nOps' = nOps + 1
    /\ UNCHANGED <<modelVars, viewerVars, glContext>>

\* drawLayer(frameCtx, batchingLayer, renderPass): last.drew says whether
\* gl.drawElements was reached, last.program with which program
DrawLayer(class) ==
    /\ Has(renderers, class)
    /\ \E compileFails \in BOOLEAN :
          LET r == renderers[class]
              r2 == IF r.program = NoProgram THEN Allocate(r, compileFails)
                    ELSE r
              returns == /\ r.program = NoProgram
                         /\ ChecksErrorsAfterAllocate(class)
                         /\ r2.errors
          IN  /\ renderers' = [renderers EXCEPT ![class] = r2]
              /\ last' = [op |-> "drawLayer", renderer |-> class,
                          drew |-> ~returns,
                          program |-> IF returns THEN NoProgram ELSE r2.program]
    /\ nOps' = nOps + 1
    /\ UNCHANGED <<modelVars, viewerVars, glContext>>

\* The canvas's webglcontextlost listener: the handles of the context are
\* invalid from here on
WebglContextLost ==
    /\ ~glContext.lost
    /\ glContext' = [lost |-> TRUE, generation |-> glContext.generation + 1]
    /\ last' = [op |-> "webglcontextlost"]
    /\ nOps' = nOps + 1
    /\ UNCHANGED <<modelVars, viewerVars, renderers>>

\* The canvas's webglcontextrestored listener: _initWebGL(), and when it
\* got a context, scene._webglContextRestored(gl), which reaches each
\* renderer's webglContextRestored(): this._program = null
WebglContextRestored ==
    /\ glContext.lost
    /\ \E gotContext \in BOOLEAN :
          IF gotContext
          THEN /\ glContext' = [glContext EXCEPT !.lost = FALSE]
               /\ renderers' = [c \in DOMAIN renderers |->
                                   [renderers[c] EXCEPT !.program = NoProgram]]
          ELSE UNCHANGED <<glContext, renderers>>
    /\ last' = [op |-> "webglcontextrestored"]
    /\ nOps' = nOps + 1
    /\ UNCHANGED <<modelVars, viewerVars>>

RendererConstruct ==
    nOps < MaxRendererOps /\ \E class \in RendererClasses : ConstructRenderer(class)

RendererDrawLayer ==
    nOps < MaxRendererOps /\ \E class \in RendererClasses : DrawLayer(class)

RendererContextLost == nOps < MaxRendererOps /\ WebglContextLost

RendererContextRestored == nOps < MaxRendererOps /\ WebglContextRestored

NextRenderer ==
    \/ RendererConstruct
    \/ RendererDrawLayer
    \/ RendererContextLost
    \/ RendererContextRestored

SpecRenderer == InitLargestBatch /\ [][NextRenderer]_vars

\* C23: a batching renderer never issues gl.drawElements with a program made
\* before the most recent context loss: a drawLayer between the loss and the
\* restoration draws nothing, and the first drawLayer after
\* webglContextRestored() draws with a newly allocated program.
C23_NoDrawWithLostProgram ==
    (last.op = "drawLayer" /\ last.drew) =>
        /\ ~glContext.lost
        /\ last.program.generation = glContext.generation

\* C30: a batching renderer whose errors field is set issues no
\* gl.drawElements from drawLayer, whichever the class and whether the
\* compilation failed in the constructor or in a re-allocation.
C30_NoDrawWithFailedProgram ==
    (last.op = "drawLayer" /\ renderers[last.renderer].errors) => ~last.drew

-----------------------------------------------------------------------------
(* The initial flags of an Entity *)

\* set visible(v) { v = v !== false; .. } and set xrayed(v) { v = !!v; .. }:
\* the value stored, for a value given as "true", "false" or NoBool
StoredFlag(f, value) ==
    IF f \in OnByDefault THEN value # BoolStr(FALSE) ELSE value = BoolStr(TRUE)

\* A flag setter of the model: stores the flag, sets it on every Entity of
\* the node list, and asks for a redraw
SetModelFlag(f, value) ==
    /\ modelFlags' = [modelFlags EXCEPT ![f] = StoredFlag(f, value)]
    /\ nodes' = [n \in DOMAIN nodes |->
                    IF n \in SeqRange(nodeList)
                    THEN [nodes[n] EXCEPT !.flags =
                             IF StoredFlag(f, value) THEN @ \cup {f} ELSE @ \ {f}]
                    ELSE nodes[n]]
    /\ redraws' = Min2(redraws + 1, MaxRedraws)
    /\ last' = [op |-> "setModelFlag", flag |-> f, value |-> value]
    /\ nOps' = nOps + 1
    /\ UNCHANGED <<maxGeometryBatchSize, geometryVars, numTriangles, textureVars,
                   meshes, nodeList, layerVars, lastKeyVars, tempVec3a, destroyed,
                   renderVars, finalizeCalls, viewerVars, rendererVars>>

\* createEntity cfgs that give no flag, or one flag as true or as false
FlagEntityCfgs ==
    {[id |-> NoId, meshIds |-> <<"m1">>]}
    \cup {[id |-> NoId, meshIds |-> <<"m1">>, visible |-> b] : b \in BOOLEAN}
    \cup {[id |-> NoId, meshIds |-> <<"m1">>, pickable |-> b] : b \in BOOLEAN}
    \cup {[id |-> NoId, meshIds |-> <<"m1">>, clippable |-> b] : b \in BOOLEAN}
    \cup {[id |-> NoId, meshIds |-> <<"m1">>, collidable |-> b] : b \in BOOLEAN}
    \cup {[id |-> NoId, meshIds |-> <<"m1">>, culled |-> b] : b \in BOOLEAN}
    \cup {[id |-> NoId, meshIds |-> <<"m1">>, edges |-> b] : b \in BOOLEAN}
    \cup {[id |-> NoId, meshIds |-> <<"m1">>, xrayed |-> b] : b \in BOOLEAN}
    \cup {[id |-> NoId, meshIds |-> <<"m1">>, highlighted |-> b] : b \in BOOLEAN}
    \cup {[id |-> NoId, meshIds |-> <<"m1">>, selected |-> b] : b \in BOOLEAN}

FlagsCreateMesh == nOps < MaxFlagOps /\ CreateMesh(BaseMeshCfg)

FlagsSetModelFlag ==
    /\ nOps < MaxFlagOps
    /\ \E f \in DOMAIN modelFlags, b \in BOOLEAN : SetModelFlag(f, BoolStr(b))

FlagsCreateEntity ==
    nOps < MaxFlagOps /\ \E cfg \in FlagEntityCfgs : CreateEntity(cfg)

NextFlags == FlagsCreateMesh \/ FlagsSetModelFlag \/ FlagsCreateEntity

SpecFlags == InitLargestBatch /\ [][NextFlags]_vars

\* C24: the Entity createEntity makes has each of xrayed, highlighted,
\* selected, edges and culled iff the cfg gives true for it, and each of
\* visible, pickable, clippable and collidable iff the cfg does not give
\* false for it.
C24_InitialFlagsFromCfg ==
    [][last'.op = "createEntity" =>
          \A n \in DOMAIN nodes' \ DOMAIN nodes :
              /\ \A f \in OffByDefault :
                    f \in nodes'[n].flags <=> CfgFlag(last'.cfg, f) = BoolStr(TRUE)
              /\ \A f \in OnByDefault :
                    f \in nodes'[n].flags <=> CfgFlag(last'.cfg, f) # BoolStr(FALSE)]_vars

-----------------------------------------------------------------------------
(* createPortion and finalized layers *)

\* C25: across createGeometry, createMesh, createEntity and finalize calls,
\* the model never calls createPortion on a layer whose finalize() has
\* already been invoked.
C25_NoPortionAfterLayerFinalize ==
    \A u \in DOMAIN layers : layers[u].rejected = 0

-----------------------------------------------------------------------------
(* The order of the calls within finalize() *)

OrderMeshCfgs ==
    {BaseMeshCfg, [BaseMeshCfg EXCEPT !.geometryId = "g1"],
     [BaseMeshCfg EXCEPT !.primitive = "points"]}

OrderEntityCfgs ==
    {[id |-> NoId, meshIds |-> ms] : ms \in {<<"m2">>, <<"m3">>, <<"m2", "m3">>}}

OrderCreateGeometry == nOps = 0 /\ CreateGeometry(BaseGeometryCfg)

OrderCreateMesh ==
    /\ nOps \in 1..(MaxOrderOps - 1)
    /\ \E cfg \in OrderMeshCfgs : CreateMesh([cfg EXCEPT !.id = MeshIdAt(nOps)])

OrderCreateEntity ==
    nOps \in 1..(MaxOrderOps - 1) /\ \E cfg \in OrderEntityCfgs : CreateEntity(cfg)

OrderFinalize == nOps \in 1..(MaxOrderOps - 1) /\ Finalize

NextOrder ==
    OrderCreateGeometry \/ OrderCreateMesh \/ OrderCreateEntity \/ OrderFinalize

SpecOrder == InitLargestBatch /\ [][NextOrder]_vars

\* The places in a call trace of the calls of one kind
PlacesOf(calls, call) == {i \in 1..Len(calls) : calls[i].call = call}

\* Every call of the first kind comes before every call of the second
AllBefore(calls, first, second) ==
    \A i \in PlacesOf(calls, first), j \in PlacesOf(calls, second) : i < j

\* C26: within one finalize(), every instancing layer and every open
\* batching layer is finalized before any Entity's _finalize, every Entity's
\* _finalize runs before any Entity's _finalize2, and the sort and the
\* re-indexing come only after every Entity's _finalize2.
C26_FinalizeOrder ==
    [][last'.op = "finalize" =>
          LET calls == last'.calls
          IN  /\ {calls[i].on : i \in PlacesOf(calls, "layer.finalize")} =
                     Range(instancingLayers) \cup Range(currentBatchingLayers)
              /\ {calls[i].on : i \in PlacesOf(calls, "node._finalize")} =
                     SeqRange(nodeList)
              /\ {calls[i].on : i \in PlacesOf(calls, "node._finalize2")} =
                     SeqRange(nodeList)
              /\ AllBefore(calls, "layer.finalize", "node._finalize")
              /\ AllBefore(calls, "node._finalize", "node._finalize2")
              /\ AllBefore(calls, "node._finalize2", "layerList.sort")
              /\ AllBefore(calls, "node._finalize2", "layerIndex")]_vars

\* A finalize() with an instancing layer, an open batching layer and an
\* Entity to finalize
C26_Witness ==
    /\ last.op = "finalize"
    /\ \E i, j, k \in 1..Len(last.calls) :
          /\ i < j /\ j < k
          /\ last.calls[i].call = "layer.finalize"
          /\ layers[last.calls[i].on].kind = "instancing"
          /\ last.calls[j].call = "layer.finalize"
          /\ layers[last.calls[j].on].kind = "batching"
          /\ last.calls[k].call = "node._finalize"

-----------------------------------------------------------------------------
(* destroy() and the layers *)

\* C27: destroy() calls destroy() exactly once on every layer the model
\* created, whether batching layers are still open or not.
C27_EachLayerDestroyedOnce ==
    [][last'.op = "destroy" =>
          \A u \in DOMAIN layers :
              layers'[u].destroyCalls = layers[u].destroyCalls + 1]_vars

-----------------------------------------------------------------------------
(* The color passes of rebuildRenderFlags() *)

\* C28: after rebuildRenderFlags() on a model with a visible portion and not
\* all portions culled, colorOpaque is set iff numTransparentLayerPortions <
\* numPortions and colorTransparent iff numTransparentLayerPortions > 0; with
\* no visible portion, or all portions culled, no render pass is set.
C28_ColorPasses ==
    [][last'.op = "rebuildRenderFlags" =>
          LET c == layerPortionCounts
              passes == renderFlags'.passes
          IN  IF c.numVisibleLayerPortions = 0
                 \/ c.numCulledLayerPortions = numPortions
              THEN passes = {}
              ELSE /\ "colorOpaque" \in passes
                        <=> c.numTransparentLayerPortions < numPortions
                   /\ "colorTransparent" \in passes
                        <=> c.numTransparentLayerPortions > 0]_vars

\* A rebuild with visible portions, all of them transparent: the transparent
\* pass alone of the two color passes
C28_Witness ==
    /\ last.op = "rebuildRenderFlags"
    /\ layerPortionCounts.numVisibleLayerPortions > 0
    /\ layerPortionCounts.numCulledLayerPortions = 0
    /\ layerPortionCounts.numTransparentLayerPortions = numPortions
    /\ "colorTransparent" \in renderFlags.passes
    /\ "colorOpaque" \notin renderFlags.passes

-----------------------------------------------------------------------------
(* mesh.origin over later createMesh calls *)

\* What mesh.origin reads as now: the scratch vector when createMesh stored
\* the result of math.addVec3(.., .., tempVec3a), which is tempVec3a itself
MeshOrigin(ms, scratch, m) ==
    IF ms[m].originRef = "tempVec3a" THEN scratch ELSE ms[m].origin

OriginMeshCfgs ==
    {[BaseMeshCfg EXCEPT !.geometryId = g, !.origin = o] :
        g \in {NoId, "g1"}, o \in {NoVec, 1, 2}}

OriginCreateGeometry == nOps < MaxOriginOps /\ CreateGeometry(BaseGeometryCfg)

OriginCreateMesh ==
    /\ nOps < MaxOriginOps
    /\ \E cfg \in OriginMeshCfgs : CreateMesh([cfg EXCEPT !.id = MeshIdAt(nOps)])

NextOrigin == OriginCreateGeometry \/ OriginCreateMesh

SpecOrigin == InitLargestBatch /\ [][NextOrigin]_vars

\* C29: the origin createMesh recorded on a mesh is not changed by a later
\* createMesh call, whatever origin the later call passes.
C29_MeshOriginKept ==
    [][last'.op = "createMesh" =>
          \A m \in DOMAIN meshes :
              MeshOrigin(meshes', tempVec3a', m) = MeshOrigin(meshes, tempVec3a, m)]_vars

====
